---- MODULE Spec2Model ----
(***************************************************************************)
(* The authentication core of the Asgardeo auth SDK as a state machine.   *)
(*                                                                         *)
(* State: the data layer's four stores (configuration, provider metadata, *)
(* session data, temporary data), the process-wide HttpsClient singleton,  *)
(* and one record per call of a public operation that is in flight: its    *)
(* position (pc), its local variables and its promise.  Every step is the  *)
(* piece of code that runs between two suspension points of the call.      *)
(***************************************************************************)
EXTENDS Integers, Sequences, FiniteSets, TLC

VARIABLES
    config,           \* DataLayer: configuration data
    storeByReference, \* DataLayer: TRUE when getConfigData hands out the stored object itself
    metadata,         \* DataLayer: OIDC provider metadata
    session,          \* DataLayer: session data
    temporary,        \* DataLayer: temporary data (pkce_code_verifier, op_config_initiated)
    httpsClient,      \* HttpsClient.httpsClient (static)
    calls,            \* the calls in flight, one record per slot
    pendingClear,     \* clearUserSessionData() promises started and not yet finished
    lastSent,         \* history: the code_verifier last sent in a token exchange, since the
                      \* last getAuthorizationURL (.sinceAuthorize) and since the last write
                      \* of the verifier by getAuthorizationURL or setPKCECode (.sinceWrite);
                      \* and the slot of the call that wrote the stored verifier, 0 when
                      \* none is stored (.writer)
    discoveryDone,    \* history: some getOIDCProviderMetaData call has completed
    sessionStorage,   \* the browser's sessionStorage: what the sign-out functions read
    location          \* window.location.href

vars == <<config, storeByReference, metadata, session, temporary, httpsClient,
          calls, pendingClear, lastSent, discoveryDone, sessionStorage, location>>

\* the browser, which AuthenticationCore, HttpsClient and CryptoUtils never touch
browser == <<sessionStorage, location>>

stores == <<config, storeByReference, metadata, session, temporary>>

-----------------------------------------------------------------------------
(* Bounds *)

\* how many different random byte strings the random source can produce
NumRandom == 2

\* the call slots: calls that can be in flight at once
Slots == {1, 2}

-----------------------------------------------------------------------------
(* Values *)

\* JavaScript's undefined, where a string is expected
Undefined == "<undefined>"

\* JavaScript's undefined, where an array is expected
UndefinedArray == <<Undefined>>

OIDC_SCOPE == "openid"
AUTHORIZATION_ENDPOINT == "authorization_endpoint"
PKCE_CODE_VERIFIER == "pkce_code_verifier"
OP_CONFIG_INITIATED == "op_config_initiated"
SESSION_STATE == "session_state"

\* !s || s.trim().length === 0
IsBlank(s) ==
    \/ s = Undefined
    \/ \A i \in 1..Len(s) : SubSeq(s, i, i) = " "

\* s.trim().length > 0, for a defined or undefined s
NotBlank(s) == ~IsBlank(s)

Includes(array, x) == \E i \in 1..Len(array) : array[i] = x

\* Boolean(value) of a string or undefined
Boolean(value) == value \notin {Undefined, ""}

\* the values of the caller's extra parameters: strings and booleans
JSString(s) == [type |-> "string", string |-> s]
JSBoolean(b) == [type |-> "boolean", boolean |-> b]

\* value == "": a string equals it when it is empty; a boolean is compared as
\* a number, and false and "" both convert to 0
LooseEqualsEmpty(value) ==
    IF value.type = "string" THEN value.string = "" ELSE value.boolean = FALSE

\* value.toString()
toString(value) ==
    IF value.type = "string" THEN value.string
    ELSE IF value.boolean THEN "true" ELSE "false"

RECURSIVE Join(_, _)
Join(array, sep) ==
    IF Len(array) = 0 THEN ""
    ELSE IF Len(array) = 1 THEN array[1]
    ELSE array[1] \o sep \o Join(Tail(array), sep)

\* String.prototype.split(sep), sep a single character
RECURSIVE Split(_, _)
Split(s, sep) ==
    LET at == { i \in 1..Len(s) : SubSeq(s, i, i) = sep }
    IN  IF at = {} THEN <<s>>
        ELSE LET i == CHOOSE i \in at : \A j \in at : i <= j
             IN  <<SubSeq(s, 1, i - 1)>> \o Split(SubSeq(s, i + 1, Len(s)), sep)

-----------------------------------------------------------------------------
(* CryptoUtils *)

\* the digits the base64 encoder writes for the byte values 0, 1, 2
Base64Digits == <<"A", "+", "/">>

\* base64url.encode of a byte string: one digit per byte, then the padding
RECURSIVE base64url_encode(_)
base64url_encode(bytes) ==
    IF Len(bytes) = 0 THEN "="
    ELSE Base64Digits[Head(bytes) + 1] \o base64url_encode(Tail(bytes))

\* String.prototype.replace(/from/g, to), from a single character
RECURSIVE ReplaceAll(_, _, _)
ReplaceAll(s, from, to) ==
    IF Len(s) = 0 THEN ""
    ELSE (IF SubSeq(s, 1, 1) = from THEN to ELSE SubSeq(s, 1, 1))
         \o ReplaceAll(SubSeq(s, 2, Len(s)), from, to)

base64URLEncode(value) ==
    ReplaceAll(ReplaceAll(ReplaceAll(base64url_encode(value), "+", "-"), "/", "_"), "=", "")

\* new TextEncoder().encode(text): the byte of each character
CharByte(ch) == IF ch = "A" THEN 0 ELSE IF ch = "-" THEN 1 ELSE 2

TextEncode(text) == [i \in 1..Len(text) |-> CharByte(SubSeq(text, i, i))]

RECURSIVE WeightedSum(_, _)
WeightedSum(bytes, i) ==
    IF i > Len(bytes) THEN 0 ELSE i * bytes[i] + WeightedSum(bytes, i + 1)

\* the digest primitive: a fixed function from byte strings to two-byte digests
sha256(bytes) ==
    << (WeightedSum(bytes, 1) + Len(bytes)) % 3, (2 * WeightedSum(bytes, 1) + 1) % 3 >>

\* the byte strings the random source can return
RandomBytes == { << i % 3, (i \div 3) % 3 >> : i \in 1..NumRandom }

getCodeVerifier(random) == base64URLEncode(random)

getCodeChallenge(verifier) == base64URLEncode(sha256(TextEncode(verifier)))

Verifiers == { getCodeVerifier(r) : r \in RandomBytes }

-----------------------------------------------------------------------------
(* Exceptions and promises *)

NoError == [type |-> "none"]

SyntaxError == [type |-> "SyntaxError", code |-> "", errorCode |-> "", status |-> 0,
                error |-> NoError]

AsgardeoAuthException(code, error) ==
    [type |-> "AsgardeoAuthException", code |-> code, errorCode |-> "",
     status |-> 0, error |-> error]

\* keeps error?.code and error?.response?.status of the error it wraps, not the error
AsgardeoAuthNetworkException(code, error) ==
    [type |-> "AsgardeoAuthNetworkException", code |-> code,
     errorCode |-> IF error.type = "none" THEN "" ELSE error.code,
     status |-> IF error.type = "AxiosError" THEN error.status ELSE 0,
     error |-> NoError]

AxiosError(code, status) ==
    [type |-> "AxiosError", code |-> code, errorCode |-> "", status |-> status,
     error |-> NoError]

TypeError == [type |-> "TypeError", code |-> "", errorCode |-> "", status |-> 0,
              error |-> NoError]

\* new AsgardeoAuthException(code, origin, name, message, error): the caught error
\* is the fifth argument of the constructor
AsgardeoAuthException_5(code, fifth) ==
    [type |-> "AsgardeoAuthException", code |-> code, errorCode |-> "", status |-> 0,
     error |-> NoError, fifth |-> fifth]

Pending == [state |-> "pending", value |-> Undefined, error |-> NoError]
Resolved(value) == [state |-> "resolved", value |-> value, error |-> NoError]
Rejected(error) == [state |-> "rejected", value |-> Undefined, error |-> error]

-----------------------------------------------------------------------------
(* CryptoUtils.decodeIDToken *)

\* the digits of the base64url alphabet, for the values 0..6
Base64UrlAlphabet == <<"A", "B", "C", "D", "E", "F", "G">>

\* the characters of the byte values 0..6
Utf8Chars == <<"{", "}", "\"", "a", ":", "1", "x">>

\* base64url.decode(segment, "utf8"): the character of each digit; characters
\* that are no digits are passed over
RECURSIVE base64url_decode(_)
base64url_decode(segment) ==
    IF Len(segment) = 0 THEN ""
    ELSE LET digit == SubSeq(segment, 1, 1)
             at == { i \in 1..Len(Base64UrlAlphabet) : Base64UrlAlphabet[i] = digit }
         IN  (IF at = {} THEN "" ELSE Utf8Chars[CHOOSE i \in at : TRUE])
             \o base64url_decode(SubSeq(segment, 2, Len(segment)))

\* JSON.parse of a flat claim map: {} or {"k":v} with a one-letter key and a
\* one-digit value; anything else is a SyntaxError
JSON_parse(text) ==
    IF text = "{}" THEN [ok |-> TRUE, value |-> <<>>]
    ELSE IF /\ Len(text) = 7
            /\ SubSeq(text, 1, 2) = "{\""
            /\ SubSeq(text, 3, 3) \in {"a", "x"}
            /\ SubSeq(text, 4, 5) = "\":"
            /\ SubSeq(text, 6, 6) = "1"
            /\ SubSeq(text, 7, 7) = "}"
         THEN [ok |-> TRUE, value |-> << <<SubSeq(text, 3, 3), 1>> >>]
         ELSE [ok |-> FALSE, value |-> <<>>]

\* the tokens decodeIDToken is applied to: a payload of one claim, an empty
\* payload, a middle segment that is no JSON, an empty middle segment, a middle
\* segment that is JSON cut short, no middle segment, no token
IDTokens == {"A.ACDCEFB.A", "A.AB.A", "A.G.A", "A..A", "A.ACDCEF.A", "A", Undefined}

\* lines 171-186, a mutant: the exceptions of the decoding are not caught
decodeIDToken_Uncaught(idToken) ==
    IF idToken = Undefined THEN Rejected(TypeError)
    ELSE LET segments == Split(idToken, ".")
         IN  IF Len(segments) < 2 THEN Rejected(TypeError)
             ELSE LET payload == JSON_parse(base64url_decode(segments[2]))
                  IN  IF payload.ok THEN Resolved(payload.value)
                      ELSE Rejected(SyntaxError)

\* lines 171-186: the payload, or the exception thrown; split of undefined and
\* the decoding of undefined throw a TypeError, JSON.parse a SyntaxError
decodeIDToken_value(idToken) ==
    IF idToken = Undefined
    THEN Rejected(AsgardeoAuthException_5("CRYPTO_UTIL-DIT-IV01", TypeError))
    ELSE LET segments == Split(idToken, ".")
         IN  IF Len(segments) < 2
             THEN Rejected(AsgardeoAuthException_5("CRYPTO_UTIL-DIT-IV01", TypeError))
             ELSE LET payload == JSON_parse(base64url_decode(segments[2]))
                  IN  IF payload.ok THEN Resolved(payload.value)
                      ELSE Rejected(AsgardeoAuthException_5("CRYPTO_UTIL-DIT-IV01",
                                                            SyntaxError))

-----------------------------------------------------------------------------
(* DataLayer *)

NoSession ==
    [access_token |-> Undefined, refresh_token |-> Undefined, id_token |-> Undefined,
     session_state |-> Undefined]

NoMetadata ==
    [authorization_endpoint |-> Undefined, token_endpoint |-> Undefined,
     revocation_endpoint |-> Undefined, end_session_endpoint |-> Undefined]

NoTemporaryData == [pkce_code_verifier |-> Undefined, op_config_initiated |-> FALSE]

NothingSent == [sinceAuthorize |-> Undefined, sinceWrite |-> Undefined, writer |-> 0]

\* an empty sessionStorage; getItem of an absent key gives null, here Undefined
NoStorage ==
    [id_token |-> Undefined, end_session_endpoint |-> Undefined, other |-> Undefined]

\* the page of the application, which a redirect leaves
AppPage == "https://app/"

getConfigData == config
getSessionData == session
getOIDCProviderMetaData_stored == metadata
getOIDCProviderMetaDataParameter(name) == metadata[name]
getTemporaryDataParameter(key) == temporary[key]
setTemporaryDataParameter(key, value) == [temporary EXCEPT ![key] = value]
removeTemporaryDataParameter(key) == [temporary EXCEPT ![key] = Undefined]
setSessionDataParameter(key, value) == [session EXCEPT ![key] = value]

\* the configurations the client can be constructed with
Scopes == { UndefinedArray, <<>>, <<"profile">>, <<"openid">>, <<"profile", "email">> }

Configs ==
    [ clientID : {"client"},
      clientSecret : {Undefined},
      baseUrl : {"https://op"},
      signInRedirectURL : {"https://app/cb"},
      signOutRedirectURL : {Undefined},
      scope : Scopes,
      responseMode : {Undefined},
      prompt : {Undefined},
      enablePKCE : BOOLEAN,
      sendCookiesInRequests : {FALSE},
      overrideWellEndpointConfig : {FALSE},
      endpoints : {NoMetadata} ]

\* setConfigData(partial): the keys the partial configuration holds are replaced
setConfigData(partial) ==
    [key \in DOMAIN config |->
        IF key \in DOMAIN partial THEN partial[key] ELSE config[key]]

\* the data layers of the process: 1 is the one the AuthenticationCore was
\* constructed with, 2 belongs to another authentication context
DataLayers == {1, 2}

\* the configuration the other data layer holds: it sends cookies
OtherConfig ==
    [clientID |-> "other", clientSecret |-> Undefined, baseUrl |-> "https://op",
     signInRedirectURL |-> "https://other/cb", signOutRedirectURL |-> Undefined,
     scope |-> <<>>, responseMode |-> Undefined, prompt |-> Undefined,
     enablePKCE |-> FALSE, sendCookiesInRequests |-> TRUE,
     overrideWellEndpointConfig |-> FALSE, endpoints |-> NoMetadata]

\* dataLayer.getConfigData() of either data layer
ConfigOf(dataLayer) == IF dataLayer = 1 THEN config ELSE OtherConfig

-----------------------------------------------------------------------------
(* Calls *)

\* no response has arrived
NoResponse == [status |-> 0, data |-> Undefined]

Idle ==
    [op |-> "", pc |-> "idle", arg |-> Undefined, endpoint |-> Undefined,
     configData |-> Undefined,
     codeVerifier |-> Undefined, codeChallenge |-> Undefined,
     url |-> [endpoint |-> Undefined, searchParams |-> <<>>],
     sent |-> Undefined, response |-> NoResponse, caught |-> NoError, requests |-> 0,
     result |-> Pending, before |-> NoSession, pkce |-> FALSE, afterDiscovery |-> FALSE,
     signOutURL |-> Undefined, idToken |-> Undefined, effects |-> <<>>]

Put(c, r) == calls' = [calls EXCEPT ![c] = r]

At(c, op, pc) == calls[c].op = op /\ calls[c].pc = pc

Settle(r, result) == [r EXCEPT !.pc = "done", !.result = result]

\* operations that only read the session
ReadOps == {"getAccessToken", "isAuthenticated"}

\* the endpoints an updateConfig supplies
Overrides ==
    [authorization_endpoint |-> Undefined, token_endpoint |-> "https://my/token",
     revocation_endpoint |-> Undefined, end_session_endpoint |-> "https://my/logout"]

\* the partial configurations updateConfig is called with: the keys it holds
PartialConfigs ==
    { [endpoints |-> Overrides],
      [overrideWellEndpointConfig |-> TRUE, endpoints |-> Overrides],
      [overrideWellEndpointConfig |-> TRUE],
      [overrideWellEndpointConfig |-> FALSE] }

\* the custom grants requestCustomGrant is called with
CustomGrantConfigs ==
    { [tokenEndpoint |-> Undefined, returnsSession |-> TRUE, attachToken |-> FALSE],
      [tokenEndpoint |-> "https://op/custom", returnsSession |-> FALSE,
       attachToken |-> TRUE],
      [tokenEndpoint |-> " ", returnsSession |-> FALSE, attachToken |-> FALSE] }

\* the arguments each operation is called with
Args(op) ==
    CASE op = "getAuthorizationURL" ->
            { <<>>, << <<"fidp", JSString("google")>>, <<"", JSString("x")>>,
                       <<"y", JSString("")>> >> }
      [] op = "requestAccessToken" ->
            [authorizationCode : {"code"}, sessionState : {"", "ss"}]
      [] op = "getOIDCProviderMetaData" -> BOOLEAN
      [] op = "setPKCECode" -> Verifiers
      [] op = "requestCustomGrant" -> CustomGrantConfigs
      [] op = "updateConfig" -> PartialConfigs
      [] op = "getInstance" -> DataLayers
      [] op = "decodeIDToken" -> IDTokens
      [] OTHER -> {Undefined}

Ops == {"getAuthorizationURL", "requestAccessToken", "refreshAccessToken",
        "revokeAccessToken", "getOIDCProviderMetaData", "getAccessToken",
        "isAuthenticated", "setPKCECode"}

\* The caller sequences its calls: it starts an operation when no other is in
\* flight, and an operation that writes when, in addition, no session clear of
\* an earlier call is still running.  A read of the session may start as soon
\* as the earlier promise has settled.
Sequenced(c, op) ==
    /\ \A d \in Slots : calls[d].pc = "idle"
    /\ c = 1
    /\ op \in ReadOps \/ pendingClear = 0

Call(c, op) ==
    /\ Sequenced(c, op)
    /\ \E arg \in Args(op) :
         Put(c, [Idle EXCEPT !.op = op, !.pc = "start", !.arg = arg,
                             !.before = session, !.afterDiscovery = discoveryDone])
    /\ UNCHANGED <<browser, stores, httpsClient, pendingClear, lastSent, discoveryDone>>

\* the caller has seen the promise settle
Return(c) ==
    /\ calls[c].pc = "done"
    /\ Put(c, Idle)
    /\ UNCHANGED <<browser, stores, httpsClient, pendingClear, lastSent, discoveryDone>>

-----------------------------------------------------------------------------
(* AuthenticationCore.getAuthorizationURL *)

Append2(url, key, value) ==
    [url EXCEPT !.searchParams = Append(@, <<key, value>>)]

\* lines 82-89: the scope parameter, and configData after the push
getAuthorizationURL_scope_Always(configData) ==
    IF configData.scope # UndefinedArray /\ Len(configData.scope) > 0
    THEN LET pushed == Append(configData.scope, OIDC_SCOPE)
         IN  [scope |-> Join(pushed, " "),
              configData |-> [configData EXCEPT !.scope = pushed]]
    ELSE [scope |-> OIDC_SCOPE, configData |-> configData]

getAuthorizationURL_scope(configData) ==
    IF configData.scope # UndefinedArray /\ Len(configData.scope) > 0
    THEN LET pushed == IF Includes(configData.scope, OIDC_SCOPE)
                       THEN configData.scope
                       ELSE Append(configData.scope, OIDC_SCOPE)
         IN  [scope |-> Join(pushed, " "),
              configData |-> [configData EXCEPT !.scope = pushed]]
    ELSE [scope |-> OIDC_SCOPE, configData |-> configData]

\* lines 110-117: the caller's parameters, in their order
RECURSIVE getAuthorizationURL_custom(_, _)
getAuthorizationURL_custom(url, customParams) ==
    IF Len(customParams) = 0 THEN url
    ELSE LET key == Head(customParams)[1]
             value == Head(customParams)[2]
         IN  getAuthorizationURL_custom(
                 IF key # "" /\ ~LooseEqualsEmpty(value)
                 THEN Append2(url, key, toString(value)) ELSE url,
                 Tail(customParams))

\* lines 106-119
getAuthorizationURL_rest(url, configData, customParams) ==
    getAuthorizationURL_custom(
        IF Boolean(configData.prompt)
        THEN Append2(url, "prompt", configData.prompt) ELSE url,
        customParams)

\* lines 77-96
getAuthorizationURL_base(authorizeEndpoint, configData, scope) ==
    LET u1 == [endpoint |-> authorizeEndpoint, searchParams |-> <<>>]
        u2 == Append2(u1, "response_type", "code")
        u3 == Append2(u2, "client_id", configData.clientID)
        u4 == Append2(u3, "scope", scope)
        u5 == Append2(u4, "redirect_uri", configData.signInRedirectURL)
    IN  IF Boolean(configData.responseMode)
        THEN Append2(u5, "response_mode", configData.responseMode) ELSE u5

\* lines 59-101: up to the write of the verifier
getAuthorizationURL_start(c) ==
    /\ At(c, "getAuthorizationURL", "start")
    /\ LET authorizeEndpoint == getOIDCProviderMetaDataParameter(AUTHORIZATION_ENDPOINT)
           configData == getConfigData
           s == getAuthorizationURL_scope(configData)
           url == getAuthorizationURL_base(authorizeEndpoint, s.configData, s.scope)
       IN  IF IsBlank(authorizeEndpoint)
           THEN /\ Put(c, Settle(calls[c], Rejected(
                        AsgardeoAuthException("AUTH_CORE-GAU-NF01", NoError))))
                /\ UNCHANGED config
           ELSE /\ config' = IF storeByReference THEN s.configData ELSE config
                /\ IF configData.enablePKCE
                   THEN \E random \in RandomBytes :
                          LET codeVerifier == getCodeVerifier(random)
                          IN  Put(c, [calls[c] EXCEPT
                                  !.pc = "setVerifier", !.url = url, !.pkce = TRUE,
                                  !.configData = s.configData,
                                  !.codeVerifier = codeVerifier,
                                  !.codeChallenge = getCodeChallenge(codeVerifier)])
                   ELSE Put(c, Settle([calls[c] EXCEPT !.url = url],
                            Resolved(getAuthorizationURL_rest(
                                url, s.configData, calls[c].arg))))
    /\ UNCHANGED <<browser, storeByReference, metadata, session, temporary, httpsClient,
                   pendingClear, lastSent, discoveryDone>>

\* lines 101-119, a mutant: the verifier is not persisted
getAuthorizationURL_pkce_NotStored(c) ==
    /\ At(c, "getAuthorizationURL", "setVerifier")
    /\ LET u1 == Append2(calls[c].url, "code_challenge_method", "S256")
           u2 == Append2(u1, "code_challenge", calls[c].codeChallenge)
           url == getAuthorizationURL_rest(u2, calls[c].configData, calls[c].arg)
       IN  Put(c, Settle([calls[c] EXCEPT !.url = url], Resolved(url)))
    /\ lastSent' = NothingSent
    /\ UNCHANGED <<browser, stores, httpsClient, pendingClear, discoveryDone>>

\* lines 101-119: the verifier is persisted, then the URL is completed and returned
getAuthorizationURL_pkce(c) ==
    /\ At(c, "getAuthorizationURL", "setVerifier")
    /\ temporary' = setTemporaryDataParameter(PKCE_CODE_VERIFIER, calls[c].codeVerifier)
    /\ LET u1 == Append2(calls[c].url, "code_challenge_method", "S256")
           u2 == Append2(u1, "code_challenge", calls[c].codeChallenge)
           url == getAuthorizationURL_rest(u2, calls[c].configData, calls[c].arg)
       IN  Put(c, Settle([calls[c] EXCEPT !.url = url], Resolved(url)))
    /\ lastSent' = [NothingSent EXCEPT !.writer = c]
    /\ UNCHANGED <<browser, config, storeByReference, metadata, session, httpsClient,
                   pendingClear, discoveryDone>>

-----------------------------------------------------------------------------
(* HttpsClient *)

NoClient == [dataLayer |-> 0, axiosInstance |-> Undefined, withCredentials |-> FALSE]

\* the data layer getInstance is called with: the one of the AuthenticationCore
\* (line 56 of AuthenticationCore), or the one the caller of getInstance passes
DataLayerOf(c) == IF calls[c].op = "getInstance" THEN calls[c].arg ELSE 1

\* lines 38-45: the singleton is returned when there is one, else constructed
\* from the data layer, and the call waits for the configuration
getInstance(c) ==
    /\ calls[c].pc = "getInstance" \/ At(c, "getInstance", "start")
    /\ IF httpsClient # NoClient
       THEN /\ Put(c, [calls[c] EXCEPT !.pc = "request"])
            /\ UNCHANGED httpsClient
       ELSE /\ httpsClient' = [NoClient EXCEPT !.dataLayer = DataLayerOf(c)]
            /\ Put(c, [calls[c] EXCEPT !.pc = "createAxios"])
    /\ UNCHANGED <<browser, stores, pendingClear, lastSent, discoveryDone>>

\* lines 45-62: the axios instance is created from the configuration of the
\* data layer the singleton was constructed with
getInstance_create(c) ==
    /\ calls[c].pc = "createAxios"
    /\ LET configData == ConfigOf(httpsClient.dataLayer)
       IN  httpsClient' = [httpsClient EXCEPT
                !.axiosInstance = "axios",
                !.withCredentials = configData.sendCookiesInRequests]
    /\ Put(c, [calls[c] EXCEPT !.pc = "request"])
    /\ UNCHANGED <<browser, stores, pendingClear, lastSent, discoveryDone>>

\* line 41, line 62: a direct call of HttpsClient.getInstance(dataLayer) returns
\* the singleton
getInstance_return(c) ==
    /\ At(c, "getInstance", "request")
    /\ Put(c, Settle(calls[c], Resolved(httpsClient)))
    /\ UNCHANGED <<browser, stores, httpsClient, pendingClear, lastSent, discoveryDone>>

\* getAxios(): undefined while the singleton is still being built
getAxios == httpsClient.axiosInstance

-----------------------------------------------------------------------------
(* The transport and the provider *)

TokenBodies ==
    { [access_token |-> "A", refresh_token |-> "R", id_token |-> "ID"],
      [access_token |-> "B", refresh_token |-> Undefined, id_token |-> "ID2"],
      [access_token |-> "", refresh_token |-> "R", id_token |-> Undefined] }

\* what the provider's discovery document can hold
DiscoveryDocuments ==
    { [authorization_endpoint |-> "https://op/authorize", token_endpoint |-> "https://op/token",
       revocation_endpoint |-> "https://op/revoke", end_session_endpoint |-> "https://op/logout"],
      [authorization_endpoint |-> " ", token_endpoint |-> Undefined,
       revocation_endpoint |-> "https://op/revoke", end_session_endpoint |-> Undefined] }

\* the responses axios resolves with: the status and the data
Responses(op) ==
    [status : {200, 204},
     data : IF op \in {"getOIDCProviderMetaData", "updateConfig"} THEN DiscoveryDocuments
            ELSE IF op = "revokeAccessToken" THEN {Undefined}
            ELSE TokenBodies]

\* the errors axios rejects with: no response at all, or a status it refuses
TransportErrors == { AxiosError("ERR_NETWORK", 0), AxiosError("ERR_BAD_RESPONSE", 400) }

\* the request of call c is answered: its promise resolves or rejects
Transport(c) ==
    /\ calls[c].pc = "awaitResponse"
    /\ \/ \E response \in Responses(calls[c].op) :
            Put(c, [calls[c] EXCEPT !.pc = "then", !.response = response])
       \/ \E error \in TransportErrors :
            Put(c, [calls[c] EXCEPT !.pc = "catch", !.caught = error])
    /\ UNCHANGED <<browser, stores, httpsClient, pendingClear, lastSent, discoveryDone>>

-----------------------------------------------------------------------------
(* AuthenticationHelper *)

\* the session after the token response has been stored
handleTokenResponse_store(response) ==
    [access_token |-> response.data.access_token,
     refresh_token |-> response.data.refresh_token,
     id_token |-> response.data.id_token,
     session_state |-> session.session_state]

\* the error handleTokenResponse rejects with when it cannot take the response
handleTokenResponse_error == AsgardeoAuthException("AUTH_HELPER-HTR", NoError)

\* the fixed path of each endpoint under the base URL
resolveFallbackEndpoints(configData) ==
    [authorization_endpoint |-> configData.baseUrl \o "/oauth2/authorize",
     token_endpoint |-> configData.baseUrl \o "/oauth2/token",
     revocation_endpoint |-> configData.baseUrl \o "/oauth2/revoke",
     end_session_endpoint |-> configData.baseUrl \o "/oidc/logout"]

\* the discovered metadata, the configured endpoints taking precedence
resolveEndpoints(response, configData) ==
    [name \in DOMAIN NoMetadata |->
        IF configData.endpoints[name] # Undefined THEN configData.endpoints[name]
        ELSE response[name]]

\* clearUserSessionData() has run to its end
clearUserSessionData ==
    /\ pendingClear > 0
    /\ pendingClear' = pendingClear - 1
    /\ session' = NoSession
    /\ UNCHANGED <<browser, config, storeByReference, metadata, temporary, httpsClient, calls,
                   lastSent, discoveryDone>>

-----------------------------------------------------------------------------
(* AuthenticationCore.requestAccessToken *)

\* lines 122-139, a mutant: the session state is not persisted
requestAccessToken_start_NoSessionState(c) ==
    /\ At(c, "requestAccessToken", "start")
    /\ LET tokenEndpoint == getOIDCProviderMetaData_stored.token_endpoint
           configData == getConfigData
       IN  IF IsBlank(tokenEndpoint)
           THEN Put(c, Settle(calls[c], Rejected(
                    AsgardeoAuthException("AUTH_CORE-RAT1-NF01", NoError))))
           ELSE Put(c, [calls[c] EXCEPT
                    !.endpoint = tokenEndpoint, !.configData = configData,
                    !.pkce = configData.enablePKCE,
                    !.pc = IF configData.enablePKCE THEN "getVerifier"
                           ELSE "getInstance"])
    /\ UNCHANGED <<browser, stores, httpsClient, pendingClear, lastSent, discoveryDone>>

\* lines 122-139, a mutant: session_state is written before the endpoint check
requestAccessToken_start_WriteFirst(c) ==
    /\ At(c, "requestAccessToken", "start")
    /\ LET tokenEndpoint == getOIDCProviderMetaData_stored.token_endpoint
           configData == getConfigData
           sessionState == calls[c].arg.sessionState
       IN  /\ session' = IF sessionState # ""
                         THEN setSessionDataParameter(SESSION_STATE, sessionState)
                         ELSE session
           /\ IF IsBlank(tokenEndpoint)
              THEN Put(c, Settle(calls[c], Rejected(
                       AsgardeoAuthException("AUTH_CORE-RAT1-NF01", NoError))))
              ELSE Put(c, [calls[c] EXCEPT
                       !.endpoint = tokenEndpoint, !.configData = configData,
                       !.pkce = configData.enablePKCE,
                       !.pc = IF configData.enablePKCE THEN "getVerifier"
                              ELSE "getInstance"])
    /\ UNCHANGED <<browser, config, storeByReference, metadata, temporary, httpsClient,
                   pendingClear, lastSent, discoveryDone>>

\* lines 122-139
requestAccessToken_start(c) ==
    /\ At(c, "requestAccessToken", "start")
    /\ LET tokenEndpoint == getOIDCProviderMetaData_stored.token_endpoint
           configData == getConfigData
           sessionState == calls[c].arg.sessionState
       IN  IF IsBlank(tokenEndpoint)
           THEN /\ Put(c, Settle(calls[c], Rejected(
                        AsgardeoAuthException("AUTH_CORE-RAT1-NF01", NoError))))
                /\ UNCHANGED session
           ELSE /\ session' = IF sessionState # ""
                              THEN setSessionDataParameter(SESSION_STATE, sessionState)
                              ELSE session
                /\ Put(c, [calls[c] EXCEPT
                        !.endpoint = tokenEndpoint, !.configData = configData,
                        !.pkce = configData.enablePKCE,
                        !.pc = IF configData.enablePKCE THEN "getVerifier"
                               ELSE "getInstance"])
    /\ UNCHANGED <<browser, config, storeByReference, metadata, temporary, httpsClient,
                   pendingClear, lastSent, discoveryDone>>

\* line 155, a mutant: the verifier is looked up by the challenge of the URL the
\* exchange answers, as if every authorization kept a verifier of its own
requestAccessToken_getVerifier_OfURL(c) ==
    /\ At(c, "requestAccessToken", "getVerifier")
    /\ LET own == { v \in Verifiers :
                      <<"code_challenge", getCodeChallenge(v)>>
                        \in { calls[c].url.searchParams[i] :
                                i \in 1..Len(calls[c].url.searchParams) } }
       IN  Put(c, [calls[c] EXCEPT
               !.codeVerifier = IF own = {} THEN getTemporaryDataParameter(PKCE_CODE_VERIFIER)
                                ELSE CHOOSE v \in own : TRUE,
               !.pc = "removeVerifier"])
    /\ UNCHANGED <<browser, stores, httpsClient, pendingClear, lastSent, discoveryDone>>

\* line 155: the verifier is read into the request body
requestAccessToken_getVerifier(c) ==
    /\ At(c, "requestAccessToken", "getVerifier")
    /\ Put(c, [calls[c] EXCEPT
            !.codeVerifier = getTemporaryDataParameter(PKCE_CODE_VERIFIER),
            !.pc = "removeVerifier"])
    /\ UNCHANGED <<browser, stores, httpsClient, pendingClear, lastSent, discoveryDone>>

\* line 156, a mutant: the verifier stays in the store
requestAccessToken_removeVerifier_Kept(c) ==
    /\ At(c, "requestAccessToken", "removeVerifier")
    /\ Put(c, [calls[c] EXCEPT !.pc = "getInstance"])
    /\ UNCHANGED <<browser, stores, httpsClient, pendingClear, lastSent, discoveryDone>>

\* line 156
requestAccessToken_removeVerifier(c) ==
    /\ At(c, "requestAccessToken", "removeVerifier")
    /\ temporary' = removeTemporaryDataParameter(PKCE_CODE_VERIFIER)
    /\ Put(c, [calls[c] EXCEPT !.pc = "getInstance"])
    /\ lastSent' = [lastSent EXCEPT !.writer = 0]
    /\ UNCHANGED <<browser, config, storeByReference, metadata, session, httpsClient,
                   pendingClear, discoveryDone>>

\* lines 161-165: the POST is issued; getAxios() of a client that is still being
\* built is undefined, and the call throws
requestAccessToken_post(c) ==
    /\ At(c, "requestAccessToken", "request")
    /\ IF getAxios = Undefined
       THEN /\ Put(c, Settle(calls[c], Rejected(TypeError)))
            /\ UNCHANGED lastSent
       ELSE /\ Put(c, [calls[c] EXCEPT
                    !.pc = "awaitResponse", !.requests = @ + 1,
                    !.sent = IF calls[c].pkce THEN calls[c].codeVerifier ELSE Undefined])
            /\ lastSent' = IF calls[c].pkce /\ calls[c].codeVerifier # Undefined
                           THEN [lastSent EXCEPT
                                    !.sinceAuthorize = calls[c].codeVerifier,
                                    !.sinceWrite = calls[c].codeVerifier]
                           ELSE lastSent
    /\ UNCHANGED <<browser, stores, httpsClient, pendingClear, discoveryDone>>

\* lines 166-182, a mutant: the response is returned without being stored
requestAccessToken_then_NotStored(c) ==
    /\ At(c, "requestAccessToken", "then")
    /\ Put(c, Settle(calls[c], Resolved(calls[c].response.data)))
    /\ UNCHANGED <<browser, stores, httpsClient, pendingClear, lastSent, discoveryDone>>

\* lines 166-182: handleTokenResponse stores the response, or rejects and the
\* rejection is wrapped and passed on to the catch of line 183
requestAccessToken_then(c) ==
    /\ At(c, "requestAccessToken", "then")
    /\ \E stored \in BOOLEAN :
         IF stored
         THEN /\ session' = handleTokenResponse_store(calls[c].response)
              /\ Put(c, Settle(calls[c], Resolved(calls[c].response.data)))
         ELSE /\ Put(c, [calls[c] EXCEPT !.pc = "catch",
                    !.caught = AsgardeoAuthException("AUTH_CORE-RAT1-ES02",
                                                     handleTokenResponse_error)])
              /\ UNCHANGED session
    /\ UNCHANGED <<browser, config, storeByReference, metadata, temporary, httpsClient,
                   pendingClear, lastSent, discoveryDone>>

\* lines 183-197, a mutant: a failed exchange drops the stored session
requestAccessToken_catch_Cleared(c) ==
    /\ At(c, "requestAccessToken", "catch")
    /\ Put(c, Settle(calls[c], Rejected(
            AsgardeoAuthNetworkException("AUTH_CORE-RAT1-NR03", calls[c].caught))))
    /\ session' = NoSession
    /\ UNCHANGED <<browser, config, storeByReference, metadata, temporary, httpsClient,
                   pendingClear, lastSent, discoveryDone>>

\* lines 183-197
requestAccessToken_catch(c) ==
    /\ At(c, "requestAccessToken", "catch")
    /\ Put(c, Settle(calls[c], Rejected(
            AsgardeoAuthNetworkException("AUTH_CORE-RAT1-NR03", calls[c].caught))))
    /\ UNCHANGED <<browser, stores, httpsClient, pendingClear, lastSent, discoveryDone>>

-----------------------------------------------------------------------------
(* AuthenticationCore.refreshAccessToken *)

\* lines 200-229, a mutant: the token endpoint is checked first
refreshAccessToken_start_EndpointFirst(c) ==
    /\ At(c, "refreshAccessToken", "start")
    /\ LET tokenEndpoint == getOIDCProviderMetaData_stored.token_endpoint
           sessionData == getSessionData
       IN  IF IsBlank(tokenEndpoint)
           THEN Put(c, Settle(calls[c], Rejected(
                    AsgardeoAuthException("AUTH_CORE-RAT2-NF02", NoError))))
           ELSE IF sessionData.refresh_token \in {Undefined, ""}
           THEN Put(c, Settle(calls[c], Rejected(
                    AsgardeoAuthException("AUTH_CORE-RAT2-NF01", NoError))))
           ELSE Put(c, [calls[c] EXCEPT
                    !.endpoint = tokenEndpoint, !.configData = getConfigData,
                    !.sent = sessionData.refresh_token, !.pc = "getInstance"])
    /\ UNCHANGED <<browser, stores, httpsClient, pendingClear, lastSent, discoveryDone>>

\* lines 200-229
refreshAccessToken_start(c) ==
    /\ At(c, "refreshAccessToken", "start")
    /\ LET tokenEndpoint == getOIDCProviderMetaData_stored.token_endpoint
           sessionData == getSessionData
       IN  IF sessionData.refresh_token \in {Undefined, ""}
           THEN Put(c, Settle(calls[c], Rejected(
                    AsgardeoAuthException("AUTH_CORE-RAT2-NF01", NoError))))
           ELSE IF IsBlank(tokenEndpoint)
           THEN Put(c, Settle(calls[c], Rejected(
                    AsgardeoAuthException("AUTH_CORE-RAT2-NF02", NoError))))
           ELSE Put(c, [calls[c] EXCEPT
                    !.endpoint = tokenEndpoint, !.configData = getConfigData,
                    !.sent = sessionData.refresh_token, !.pc = "getInstance"])
    /\ UNCHANGED <<browser, stores, httpsClient, pendingClear, lastSent, discoveryDone>>

\* lines 240-246
refreshAccessToken_post(c) ==
    /\ At(c, "refreshAccessToken", "request")
    /\ IF getAxios = Undefined
       THEN Put(c, Settle(calls[c], Rejected(TypeError)))
       ELSE Put(c, [calls[c] EXCEPT !.pc = "awaitResponse", !.requests = @ + 1])
    /\ UNCHANGED <<browser, stores, httpsClient, pendingClear, lastSent, discoveryDone>>

\* lines 247-263, a mutant: the refresh leaves the session to an exchange whose
\* response is waiting to be stored
refreshAccessToken_then_Yielding(c) ==
    /\ At(c, "refreshAccessToken", "then")
    /\ \E stored \in BOOLEAN :
         IF stored
         THEN /\ session' = IF \E d \in Slots : At(d, "requestAccessToken", "then")
                            THEN session
                            ELSE handleTokenResponse_store(calls[c].response)
              /\ Put(c, Settle(calls[c], Resolved(calls[c].response.data)))
         ELSE /\ Put(c, [calls[c] EXCEPT !.pc = "catch",
                    !.caught = AsgardeoAuthException("AUTH_CORE-RAT2-ES03",
                                                     handleTokenResponse_error)])
              /\ UNCHANGED session
    /\ UNCHANGED <<browser, config, storeByReference, metadata, temporary, httpsClient,
                   pendingClear, lastSent, discoveryDone>>

\* lines 247-263
refreshAccessToken_then(c) ==
    /\ At(c, "refreshAccessToken", "then")
    /\ \E stored \in BOOLEAN :
         IF stored
         THEN /\ session' = handleTokenResponse_store(calls[c].response)
              /\ Put(c, Settle(calls[c], Resolved(calls[c].response.data)))
         ELSE /\ Put(c, [calls[c] EXCEPT !.pc = "catch",
                    !.caught = AsgardeoAuthException("AUTH_CORE-RAT2-ES03",
                                                     handleTokenResponse_error)])
              /\ UNCHANGED session
    /\ UNCHANGED <<browser, config, storeByReference, metadata, temporary, httpsClient,
                   pendingClear, lastSent, discoveryDone>>

\* lines 264-278, a mutant: the request is issued once more
refreshAccessToken_catch_Retry(c) ==
    /\ At(c, "refreshAccessToken", "catch")
    /\ Put(c, [calls[c] EXCEPT !.pc = IF calls[c].requests < 2 THEN "request" ELSE "done",
                               !.result = IF calls[c].requests < 2 THEN Pending
                                          ELSE Rejected(calls[c].caught)])
    /\ UNCHANGED <<browser, stores, httpsClient, pendingClear, lastSent, discoveryDone>>

\* lines 264-278
refreshAccessToken_catch(c) ==
    /\ At(c, "refreshAccessToken", "catch")
    /\ Put(c, Settle(calls[c], Rejected(
            AsgardeoAuthNetworkException("AUTH_CORE-RAT2-NR03", calls[c].caught))))
    /\ UNCHANGED <<browser, stores, httpsClient, pendingClear, lastSent, discoveryDone>>

-----------------------------------------------------------------------------
(* AuthenticationCore.revokeAccessToken *)

\* lines 281-301
revokeAccessToken_start(c) ==
    /\ At(c, "revokeAccessToken", "start")
    /\ LET revokeTokenEndpoint == getOIDCProviderMetaData_stored.revocation_endpoint
       IN  IF IsBlank(revokeTokenEndpoint)
           THEN Put(c, Settle(calls[c], Rejected(
                    AsgardeoAuthException("AUTH_CORE-RAT3-NF01", NoError))))
           ELSE Put(c, [calls[c] EXCEPT
                    !.endpoint = revokeTokenEndpoint, !.configData = getConfigData,
                    !.sent = getSessionData.access_token, !.pc = "getInstance"])
    /\ UNCHANGED <<browser, stores, httpsClient, pendingClear, lastSent, discoveryDone>>

\* lines 303-309
revokeAccessToken_post(c) ==
    /\ At(c, "revokeAccessToken", "request")
    /\ IF getAxios = Undefined
       THEN Put(c, Settle(calls[c], Rejected(TypeError)))
       ELSE Put(c, [calls[c] EXCEPT !.pc = "awaitResponse", !.requests = @ + 1])
    /\ UNCHANGED <<browser, stores, httpsClient, pendingClear, lastSent, discoveryDone>>

\* lines 310-328: another status than 200 is rejected into the catch of line 329;
\* on 200 clearUserSessionData() is started, not awaited, and the response returned
revokeAccessToken_then(c) ==
    /\ At(c, "revokeAccessToken", "then")
    /\ IF calls[c].response.status # 200
       THEN /\ Put(c, [calls[c] EXCEPT !.pc = "catch",
                    !.caught = AsgardeoAuthException("AUTH_CORE-RAT3-NR02", NoError)])
            /\ UNCHANGED pendingClear
       ELSE /\ pendingClear' = pendingClear + 1
            /\ Put(c, [calls[c] EXCEPT !.pc = "resolving"])
    /\ UNCHANGED <<browser, stores, httpsClient, lastSent, discoveryDone>>

\* line 327: the promise of revokeAccessToken resolves with the response
revokeAccessToken_resolve(c) ==
    /\ At(c, "revokeAccessToken", "resolving")
    /\ Put(c, Settle(calls[c], Resolved(calls[c].response)))
    /\ UNCHANGED <<browser, stores, httpsClient, pendingClear, lastSent, discoveryDone>>

\* lines 329-343
revokeAccessToken_catch(c) ==
    /\ At(c, "revokeAccessToken", "catch")
    /\ Put(c, Settle(calls[c], Rejected(
            AsgardeoAuthNetworkException("AUTH_CORE-RAT3-NR03", calls[c].caught))))
    /\ UNCHANGED <<browser, stores, httpsClient, pendingClear, lastSent, discoveryDone>>

-----------------------------------------------------------------------------
(* AuthenticationCore.getOIDCProviderMetaData *)

\* the call runs getOIDCProviderMetaData: called by the caller, or by
\* updateConfig (line 627), which then returns nothing
Resolving(c, pc) ==
    /\ calls[c].op \in {"getOIDCProviderMetaData", "updateConfig"}
    /\ calls[c].pc = pc

ResolvedTrue(c) ==
    IF calls[c].op = "updateConfig" THEN Resolved(Undefined) ELSE Resolved(TRUE)

\* lines 486-491, a mutant: the initiated flag is not looked at
getOIDCProviderMetaData_start_Always(c) ==
    /\ At(c, "getOIDCProviderMetaData", "start")
    /\ Put(c, [calls[c] EXCEPT !.configData = getConfigData, !.pc = "getInstance"])
    /\ UNCHANGED <<browser, stores, httpsClient, pendingClear, lastSent, discoveryDone>>

\* lines 486-491
getOIDCProviderMetaData_start(c) ==
    /\ At(c, "getOIDCProviderMetaData", "start")
    /\ LET forceInit == calls[c].arg
       IN  IF ~forceInit /\ getTemporaryDataParameter(OP_CONFIG_INITIATED)
           THEN /\ Put(c, Settle(calls[c], Resolved(TRUE)))
                /\ discoveryDone' = TRUE
           ELSE /\ Put(c, [calls[c] EXCEPT !.configData = getConfigData,
                                           !.pc = "getInstance"])
                /\ UNCHANGED discoveryDone
    /\ UNCHANGED <<browser, stores, httpsClient, pendingClear, lastSent>>

\* lines 493-496
getOIDCProviderMetaData_get(c) ==
    /\ Resolving(c, "request")
    /\ IF getAxios = Undefined
       THEN Put(c, Settle(calls[c], Rejected(TypeError)))
       ELSE Put(c, [calls[c] EXCEPT !.pc = "awaitResponse", !.requests = @ + 1])
    /\ UNCHANGED <<browser, stores, httpsClient, pendingClear, lastSent, discoveryDone>>

\* lines 497-518, a mutant: the response is stored as it came, the configured
\* endpoints are not merged in
getOIDCProviderMetaData_then_Unmerged(c) ==
    /\ Resolving(c, "then")
    /\ IF calls[c].response.status # 200
       THEN /\ Put(c, [calls[c] EXCEPT !.pc = "catch",
                    !.caught = AsgardeoAuthException("AUTH_CORE-GOPM-NR01", NoError)])
            /\ UNCHANGED <<browser, metadata, temporary, discoveryDone>>
       ELSE /\ metadata' = calls[c].response.data
            /\ temporary' = setTemporaryDataParameter(OP_CONFIG_INITIATED, TRUE)
            /\ Put(c, Settle(calls[c], ResolvedTrue(c)))
            /\ discoveryDone' = TRUE
    /\ UNCHANGED <<browser, config, storeByReference, session, httpsClient, pendingClear, lastSent>>

\* lines 497-518
getOIDCProviderMetaData_then(c) ==
    /\ Resolving(c, "then")
    /\ IF calls[c].response.status # 200
       THEN /\ Put(c, [calls[c] EXCEPT !.pc = "catch",
                    !.caught = AsgardeoAuthException("AUTH_CORE-GOPM-NR01", NoError)])
            /\ UNCHANGED <<browser, metadata, temporary, discoveryDone>>
       ELSE /\ metadata' = resolveEndpoints(calls[c].response.data, getConfigData)
            /\ temporary' = setTemporaryDataParameter(OP_CONFIG_INITIATED, TRUE)
            /\ Put(c, Settle(calls[c], ResolvedTrue(c)))
            /\ discoveryDone' = TRUE
    /\ UNCHANGED <<browser, config, storeByReference, session, httpsClient, pendingClear, lastSent>>

\* lines 519-526, a mutant: the failure is passed on to the caller
getOIDCProviderMetaData_catch_Rethrow(c) ==
    /\ Resolving(c, "catch")
    /\ Put(c, Settle(calls[c], Rejected(calls[c].caught)))
    /\ discoveryDone' = TRUE
    /\ UNCHANGED <<browser, stores, httpsClient, pendingClear, lastSent>>

\* lines 519-526
getOIDCProviderMetaData_catch(c) ==
    /\ Resolving(c, "catch")
    /\ metadata' = resolveFallbackEndpoints(getConfigData)
    /\ temporary' = setTemporaryDataParameter(OP_CONFIG_INITIATED, TRUE)
    /\ Put(c, Settle(calls[c], ResolvedTrue(c)))
    /\ discoveryDone' = TRUE
    /\ UNCHANGED <<browser, config, storeByReference, session, httpsClient, pendingClear, lastSent>>

-----------------------------------------------------------------------------
(* AuthenticationCore: the session reads and the verifier accessor *)

\* lines 603-605
getAccessToken(c) ==
    /\ At(c, "getAccessToken", "start")
    /\ Put(c, Settle(calls[c], Resolved(getSessionData.access_token)))
    /\ UNCHANGED <<browser, stores, httpsClient, pendingClear, lastSent, discoveryDone>>

\* lines 607-609, a mutant: the refresh token is looked at
isAuthenticated_RefreshToken(c) ==
    /\ At(c, "isAuthenticated", "start")
    /\ Put(c, Settle(calls[c], Resolved(Boolean(getSessionData.refresh_token))))
    /\ UNCHANGED <<browser, stores, httpsClient, pendingClear, lastSent, discoveryDone>>

\* lines 607-609
isAuthenticated(c) ==
    /\ At(c, "isAuthenticated", "start")
    /\ Put(c, Settle(calls[c], Resolved(Boolean(getSessionData.access_token))))
    /\ UNCHANGED <<browser, stores, httpsClient, pendingClear, lastSent, discoveryDone>>

\* lines 615-617
setPKCECode(c) ==
    /\ At(c, "setPKCECode", "start")
    /\ temporary' = setTemporaryDataParameter(PKCE_CODE_VERIFIER, calls[c].arg)
    /\ Put(c, Settle(calls[c], Resolved(Undefined)))
    /\ lastSent' = [lastSent EXCEPT !.sinceWrite = Undefined, !.writer = c]
    /\ UNCHANGED <<browser, config, storeByReference, metadata, session, httpsClient,
                   pendingClear, discoveryDone>>

-----------------------------------------------------------------------------
(* AuthenticationCore.requestCustomGrant *)

\* lines 346-375
requestCustomGrant_start(c) ==
    /\ At(c, "requestCustomGrant", "start")
    /\ LET oidcProviderMetadata == getOIDCProviderMetaData_stored
           customGrantParams == calls[c].arg
           tokenEndpoint == IF NotBlank(customGrantParams.tokenEndpoint)
                            THEN customGrantParams.tokenEndpoint
                            ELSE oidcProviderMetadata.token_endpoint
       IN  IF IsBlank(tokenEndpoint)
           THEN Put(c, Settle(calls[c], Rejected(
                    AsgardeoAuthException("AUTH_CORE-RCG-NF01", NoError))))
           ELSE Put(c, [calls[c] EXCEPT
                    !.endpoint = tokenEndpoint, !.configData = getConfigData,
                    !.pc = "getInstance"])
    /\ UNCHANGED <<browser, stores, httpsClient, pendingClear, lastSent, discoveryDone>>

\* lines 377-397: the request goes out through axios itself, with the access
\* token attached when asked for
requestCustomGrant_post(c) ==
    /\ At(c, "requestCustomGrant", "request")
    /\ Put(c, [calls[c] EXCEPT
            !.pc = "awaitResponse", !.requests = @ + 1,
            !.sent = IF calls[c].arg.attachToken THEN getSessionData.access_token
                     ELSE Undefined])
    /\ UNCHANGED <<browser, stores, httpsClient, pendingClear, lastSent, discoveryDone>>

\* lines 398-434: another status than 200 is rejected into the catch of line 435,
\* and so is a rejection of handleTokenResponse
requestCustomGrant_then(c) ==
    /\ At(c, "requestCustomGrant", "then")
    /\ IF calls[c].response.status # 200
       THEN /\ Put(c, [calls[c] EXCEPT !.pc = "catch",
                    !.caught = AsgardeoAuthException("AUTH_CORE-RCG-NR02", NoError)])
            /\ UNCHANGED session
       ELSE IF calls[c].arg.returnsSession
       THEN \E stored \in BOOLEAN :
              IF stored
              THEN /\ session' = handleTokenResponse_store(calls[c].response)
                   /\ Put(c, Settle(calls[c], Resolved(calls[c].response.data)))
              ELSE /\ Put(c, [calls[c] EXCEPT !.pc = "catch",
                         !.caught = AsgardeoAuthException("AUTH_CORE-RCG-ES03",
                                                          handleTokenResponse_error)])
                   /\ UNCHANGED session
       ELSE /\ Put(c, Settle(calls[c], Resolved(calls[c].response)))
            /\ UNCHANGED session
    /\ UNCHANGED <<browser, config, storeByReference, metadata, temporary, httpsClient,
                   pendingClear, lastSent, discoveryDone>>

\* lines 435-449
requestCustomGrant_catch(c) ==
    /\ At(c, "requestCustomGrant", "catch")
    /\ Put(c, Settle(calls[c], Rejected(
            AsgardeoAuthNetworkException("AUTH_CORE-RCG-NR04", calls[c].caught))))
    /\ UNCHANGED <<browser, stores, httpsClient, pendingClear, lastSent, discoveryDone>>

-----------------------------------------------------------------------------
(* AuthenticationCore.getSignOutURL, signOut *)

SIGN_OUT_SUCCESS_PARAM == "sign_out_success"

\* lines 547-594: the URL, or the exception thrown
getSignOutURL_value(oidcProviderMetaData, configData, sessionData) ==
    LET logoutEndpoint == oidcProviderMetaData.end_session_endpoint
        idToken == sessionData.id_token
        callbackURL == IF configData.signOutRedirectURL # Undefined
                       THEN configData.signOutRedirectURL
                       ELSE configData.signInRedirectURL
    IN  IF IsBlank(logoutEndpoint)
        THEN Rejected(AsgardeoAuthException("AUTH_CORE-GSOU-NF01", NoError))
        ELSE IF IsBlank(idToken)
        THEN Rejected(AsgardeoAuthException("AUTH_CORE-GSOU-NF02", NoError))
        ELSE IF IsBlank(callbackURL)
        THEN Rejected(AsgardeoAuthException("AUTH_CORE-GSOU-NF03", NoError))
        ELSE Resolved(logoutEndpoint \o "?" \o "id_token_hint=" \o idToken
                      \o "&post_logout_redirect_uri=" \o callbackURL \o "&state="
                      \o SIGN_OUT_SUCCESS_PARAM)

\* lines 547-594
getSignOutURL(c) ==
    /\ At(c, "getSignOutURL", "start")
    /\ Put(c, Settle(calls[c],
            getSignOutURL_value(getOIDCProviderMetaData_stored, getConfigData,
                                getSessionData)))
    /\ UNCHANGED <<browser, stores, httpsClient, pendingClear, lastSent, discoveryDone>>

\* lines 597-598, a mutant: the session clear is started before the URL is built
signOut_start_ClearFirst(c) ==
    /\ At(c, "signOut", "start")
    /\ pendingClear' = pendingClear + 1
    /\ LET signOutURL == getSignOutURL_value(getOIDCProviderMetaData_stored,
                                             getConfigData, getSessionData)
       IN  IF signOutURL.state = "rejected"
           THEN Put(c, Settle(calls[c], signOutURL))
           ELSE Put(c, [calls[c] EXCEPT !.pc = "resolving",
                                        !.signOutURL = signOutURL.value])
    /\ UNCHANGED <<browser, stores, httpsClient, lastSent, discoveryDone>>

\* lines 597-598: the URL is built, then clearUserSessionData() is started and
\* not awaited; an exception of getSignOutURL rejects the call
signOut_start(c) ==
    /\ At(c, "signOut", "start")
    /\ LET signOutURL == getSignOutURL_value(getOIDCProviderMetaData_stored,
                                             getConfigData, getSessionData)
       IN  IF signOutURL.state = "rejected"
           THEN /\ Put(c, Settle(calls[c], signOutURL))
                /\ UNCHANGED pendingClear
           ELSE /\ pendingClear' = pendingClear + 1
                /\ Put(c, [calls[c] EXCEPT !.pc = "resolving",
                                           !.signOutURL = signOutURL.value])
    /\ UNCHANGED <<browser, stores, httpsClient, lastSent, discoveryDone>>

\* line 600
signOut_resolve(c) ==
    /\ At(c, "signOut", "resolving")
    /\ Put(c, Settle(calls[c], Resolved(calls[c].signOutURL)))
    /\ UNCHANGED <<browser, stores, httpsClient, pendingClear, lastSent, discoveryDone>>

-----------------------------------------------------------------------------
(* AuthenticationCore.updateConfig *)

\* config.overrideWellEndpointConfig and config?.endpoints of the partial
\* configuration, as conditions
Overriding(partial) ==
    "overrideWellEndpointConfig" \in DOMAIN partial /\ partial.overrideWellEndpointConfig

Supplied(partial) == "endpoints" \in DOMAIN partial

\* lines 619-628, a mutant: endpoints are always re-resolved by discovery
updateConfig_start_Discover(c) ==
    /\ At(c, "updateConfig", "start")
    /\ config' = setConfigData(calls[c].arg)
    /\ IF Supplied(calls[c].arg)
       THEN Put(c, [calls[c] EXCEPT !.configData = config', !.pc = "getInstance"])
       ELSE Put(c, Settle(calls[c], Resolved(Undefined)))
    /\ UNCHANGED <<browser, storeByReference, metadata, session, temporary, httpsClient,
                   pendingClear, lastSent, discoveryDone>>

\* lines 619-628: the partial configuration is persisted, then the branch is
\* taken; the forced getOIDCProviderMetaData(true) of line 627 goes on to fetch
\* the client
updateConfig_start(c) ==
    /\ At(c, "updateConfig", "start")
    /\ config' = setConfigData(calls[c].arg)
    /\ IF Overriding(calls[c].arg)
       THEN IF Supplied(calls[c].arg)
            THEN Put(c, [calls[c] EXCEPT !.pc = "setOIDCProviderMetaData"])
            ELSE Put(c, Settle(calls[c], Resolved(Undefined)))
       ELSE IF Supplied(calls[c].arg)
            THEN Put(c, [calls[c] EXCEPT !.configData = config', !.pc = "getInstance"])
            ELSE Put(c, Settle(calls[c], Resolved(Undefined)))
    /\ UNCHANGED <<browser, storeByReference, metadata, session, temporary, httpsClient,
                   pendingClear, lastSent, discoveryDone>>

\* lines 623-625, a mutant: the override also marks the configuration initiated
updateConfig_override_Initiated(c) ==
    /\ At(c, "updateConfig", "setOIDCProviderMetaData")
    /\ metadata' = resolveEndpoints(NoMetadata, getConfigData)
    /\ temporary' = setTemporaryDataParameter(OP_CONFIG_INITIATED, TRUE)
    /\ Put(c, Settle(calls[c], Resolved(Undefined)))
    /\ UNCHANGED <<browser, config, storeByReference, session, httpsClient,
                   pendingClear, lastSent, discoveryDone>>

\* lines 623-625: resolveEndpoints({}) is stored as the metadata
updateConfig_override(c) ==
    /\ At(c, "updateConfig", "setOIDCProviderMetaData")
    /\ metadata' = resolveEndpoints(NoMetadata, getConfigData)
    /\ Put(c, Settle(calls[c], Resolved(Undefined)))
    /\ UNCHANGED <<browser, config, storeByReference, session, temporary, httpsClient,
                   pendingClear, lastSent, discoveryDone>>

-----------------------------------------------------------------------------
(* CryptoUtils.decodeIDToken, called *)

decodeIDToken(c) ==
    /\ At(c, "decodeIDToken", "start")
    /\ Put(c, Settle(calls[c], decodeIDToken_value(calls[c].arg)))
    /\ UNCHANGED <<browser, stores, httpsClient, pendingClear, lastSent, discoveryDone>>

-----------------------------------------------------------------------------

Init ==
    /\ config \in Configs
    /\ storeByReference \in BOOLEAN
    /\ metadata = NoMetadata
    /\ session = NoSession
    /\ temporary = NoTemporaryData
    /\ httpsClient = NoClient
    /\ calls = [c \in Slots |-> Idle]
    /\ pendingClear = 0
    /\ lastSent = NothingSent
    /\ discoveryDone = FALSE
    /\ sessionStorage = NoStorage
    /\ location = AppPage

Next ==
    \/ \E c \in Slots, op \in Ops : Call(c, op)
    \/ \E c \in Slots : Return(c)
    \/ \E c \in Slots : getAuthorizationURL_start(c)
    \/ \E c \in Slots : getAuthorizationURL_pkce(c)
    \/ \E c \in Slots : getInstance(c)
    \/ \E c \in Slots : getInstance_create(c)
    \/ \E c \in Slots : Transport(c)
    \/ clearUserSessionData
    \/ \E c \in Slots : requestAccessToken_start(c)
    \/ \E c \in Slots : requestAccessToken_getVerifier(c)
    \/ \E c \in Slots : requestAccessToken_removeVerifier(c)
    \/ \E c \in Slots : requestAccessToken_post(c)
    \/ \E c \in Slots : requestAccessToken_then(c)
    \/ \E c \in Slots : requestAccessToken_catch(c)
    \/ \E c \in Slots : refreshAccessToken_start(c)
    \/ \E c \in Slots : refreshAccessToken_post(c)
    \/ \E c \in Slots : refreshAccessToken_then(c)
    \/ \E c \in Slots : refreshAccessToken_catch(c)
    \/ \E c \in Slots : revokeAccessToken_start(c)
    \/ \E c \in Slots : revokeAccessToken_post(c)
    \/ \E c \in Slots : revokeAccessToken_then(c)
    \/ \E c \in Slots : revokeAccessToken_resolve(c)
    \/ \E c \in Slots : revokeAccessToken_catch(c)
    \/ \E c \in Slots : getOIDCProviderMetaData_start(c)
    \/ \E c \in Slots : getOIDCProviderMetaData_get(c)
    \/ \E c \in Slots : getOIDCProviderMetaData_then(c)
    \/ \E c \in Slots : getOIDCProviderMetaData_catch(c)
    \/ \E c \in Slots : getAccessToken(c)
    \/ \E c \in Slots : isAuthenticated(c)
    \/ \E c \in Slots : setPKCECode(c)

Spec == Init /\ [][Next]_vars

-----------------------------------------------------------------------------
(* The session and the configuration: the operations that exchange, refresh,  *)
(* revoke and sign out, custom grants, updateConfig, and the transport client *)
(* of two data layers, for a client without PKCE.                             *)

\* the redirect URLs of the configuration: signOutRedirectURL, signInRedirectURL
RedirectURLs ==
    { <<Undefined, "https://app/cb">>, <<"https://app/out", "https://app/cb">>,
      <<"", "https://app/cb">>, <<Undefined, " ">> }

SessionConfigs ==
    { [clientID |-> "client", clientSecret |-> Undefined, baseUrl |-> "https://op",
       signInRedirectURL |-> urls[2], signOutRedirectURL |-> urls[1],
       scope |-> <<>>, responseMode |-> Undefined, prompt |-> Undefined,
       enablePKCE |-> FALSE, sendCookiesInRequests |-> FALSE,
       overrideWellEndpointConfig |-> FALSE, endpoints |-> NoMetadata]
      : urls \in RedirectURLs }

SessionOps == {"requestAccessToken", "refreshAccessToken", "revokeAccessToken",
               "requestCustomGrant", "getOIDCProviderMetaData", "isAuthenticated",
               "getSignOutURL", "signOut", "updateConfig", "getInstance",
               "decodeIDToken"}

SessionInit ==
    /\ config \in SessionConfigs
    /\ storeByReference = FALSE
    /\ metadata = NoMetadata
    /\ session = NoSession
    /\ temporary = NoTemporaryData
    /\ httpsClient = NoClient
    /\ calls = [c \in Slots |-> Idle]
    /\ pendingClear = 0
    /\ lastSent = NothingSent
    /\ discoveryDone = FALSE
    /\ sessionStorage = NoStorage
    /\ location = AppPage

SessionNext ==
    \/ \E c \in Slots, op \in SessionOps : Call(c, op)
    \/ \E c \in Slots : Return(c)
    \/ \E c \in Slots : getInstance(c)
    \/ \E c \in Slots : getInstance_create(c)
    \/ \E c \in Slots : getInstance_return(c)
    \/ \E c \in Slots : Transport(c)
    \/ clearUserSessionData
    \/ \E c \in Slots : requestAccessToken_start(c)
    \/ \E c \in Slots : requestAccessToken_post(c)
    \/ \E c \in Slots : requestAccessToken_then(c)
    \/ \E c \in Slots : requestAccessToken_catch(c)
    \/ \E c \in Slots : refreshAccessToken_start(c)
    \/ \E c \in Slots : refreshAccessToken_post(c)
    \/ \E c \in Slots : refreshAccessToken_then(c)
    \/ \E c \in Slots : refreshAccessToken_catch(c)
    \/ \E c \in Slots : revokeAccessToken_start(c)
    \/ \E c \in Slots : revokeAccessToken_post(c)
    \/ \E c \in Slots : revokeAccessToken_then(c)
    \/ \E c \in Slots : revokeAccessToken_resolve(c)
    \/ \E c \in Slots : revokeAccessToken_catch(c)
    \/ \E c \in Slots : requestCustomGrant_start(c)
    \/ \E c \in Slots : requestCustomGrant_post(c)
    \/ \E c \in Slots : requestCustomGrant_then(c)
    \/ \E c \in Slots : requestCustomGrant_catch(c)
    \/ \E c \in Slots : getOIDCProviderMetaData_start(c)
    \/ \E c \in Slots : getOIDCProviderMetaData_get(c)
    \/ \E c \in Slots : getOIDCProviderMetaData_then(c)
    \/ \E c \in Slots : getOIDCProviderMetaData_catch(c)
    \/ \E c \in Slots : isAuthenticated(c)
    \/ \E c \in Slots : getSignOutURL(c)
    \/ \E c \in Slots : signOut_start(c)
    \/ \E c \in Slots : signOut_resolve(c)
    \/ \E c \in Slots : updateConfig_start(c)
    \/ \E c \in Slots : updateConfig_override(c)
    \/ \E c \in Slots : decodeIDToken(c)

SessionSpec == SessionInit /\ [][SessionNext]_vars

-----------------------------------------------------------------------------
(* The authorization URL: every optional parameter of the configuration, and  *)
(* extra parameters of the caller that are strings and booleans.              *)

UrlConfigs ==
    [ clientID : {"client"},
      clientSecret : {Undefined},
      baseUrl : {"https://op"},
      signInRedirectURL : {"https://app/cb"},
      signOutRedirectURL : {Undefined},
      scope : {<<"profile">>},
      responseMode : {Undefined, "form_post"},
      prompt : {Undefined, "", "login"},
      enablePKCE : BOOLEAN,
      sendCookiesInRequests : {FALSE},
      overrideWellEndpointConfig : {FALSE},
      endpoints : {NoMetadata} ]

\* the extra parameters getAuthorizationURL is called with
UrlParams ==
    { <<>>,
      << <<"fidp", JSString("google")>>, <<"", JSString("x")>>,
         <<"y", JSString("")>>, <<"z", JSString(" ")>> >>,
      << <<"t", JSBoolean(TRUE)>>, <<"f", JSBoolean(FALSE)>>,
         <<"a", JSString("1")>> >> }

UrlArgs(op) == IF op = "getAuthorizationURL" THEN UrlParams ELSE Args(op)

UrlOps == {"getOIDCProviderMetaData", "getAuthorizationURL"}

UrlCall(c, op) ==
    /\ Sequenced(c, op)
    /\ \E arg \in UrlArgs(op) :
         Put(c, [Idle EXCEPT !.op = op, !.pc = "start", !.arg = arg,
                             !.before = session, !.afterDiscovery = discoveryDone])
    /\ UNCHANGED <<browser, stores, httpsClient, pendingClear, lastSent, discoveryDone>>

UrlInit ==
    /\ config \in UrlConfigs
    /\ storeByReference \in BOOLEAN
    /\ metadata = NoMetadata
    /\ session = NoSession
    /\ temporary = NoTemporaryData
    /\ httpsClient = NoClient
    /\ calls = [c \in Slots |-> Idle]
    /\ pendingClear = 0
    /\ lastSent = NothingSent
    /\ discoveryDone = FALSE
    /\ sessionStorage = NoStorage
    /\ location = AppPage

UrlNext ==
    \/ \E c \in Slots, op \in UrlOps : UrlCall(c, op)
    \/ \E c \in Slots : Return(c)
    \/ \E c \in Slots : getAuthorizationURL_start(c)
    \/ \E c \in Slots : getAuthorizationURL_pkce(c)
    \/ \E c \in Slots : getInstance(c)
    \/ \E c \in Slots : getInstance_create(c)
    \/ \E c \in Slots : Transport(c)
    \/ \E c \in Slots : getOIDCProviderMetaData_start(c)
    \/ \E c \in Slots : getOIDCProviderMetaData_get(c)
    \/ \E c \in Slots : getOIDCProviderMetaData_then(c)
    \/ \E c \in Slots : getOIDCProviderMetaData_catch(c)

UrlSpec == UrlInit /\ [][UrlNext]_vars

-----------------------------------------------------------------------------
(* What the claims are stated with *)

\* the values a URL carries under a key, in their order
Values(url, key) ==
    LET hits == SelectSeq(url.searchParams, LAMBDA p : p[1] = key)
    IN  [i \in 1..Len(hits) |-> hits[i][2]]

Count(array, x) == Cardinality({ i \in 1..Len(array) : array[i] = x })

Elements(array) == { array[i] : i \in 1..Len(array) }

Done(c, op) == calls[c].op = op /\ calls[c].pc = "done"

\* the token POST of call c has been issued
Posted(c) == calls[c].requests > 0

-----------------------------------------------------------------------------
(* Calls that overlap: two callers sign in on one context with PKCE.  Each    *)
(* runs the sign-in sequence, starting its next call when its own previous    *)
(* call has settled, whatever the other caller is doing.                       *)

ConcConfigs ==
    { [clientID |-> "client", clientSecret |-> Undefined, baseUrl |-> "https://op",
       signInRedirectURL |-> "https://app/cb", signOutRedirectURL |-> Undefined,
       scope |-> <<>>, responseMode |-> Undefined, prompt |-> Undefined,
       enablePKCE |-> TRUE, sendCookiesInRequests |-> FALSE,
       overrideWellEndpointConfig |-> FALSE, endpoints |-> NoMetadata] }

\* the calls of a sign-in, in the order a caller makes them
SignIn == <<"getOIDCProviderMetaData", "getAuthorizationURL", "requestAccessToken",
            "refreshAccessToken">>

ConcArgs(op) ==
    CASE op = "getAuthorizationURL" -> { <<>> }
      [] op = "requestAccessToken" -> [authorizationCode : {"code"}, sessionState : {""}]
      [] op = "getOIDCProviderMetaData" -> {FALSE}
      [] OTHER -> {Undefined}

\* the caller of slot c has received an authorization URL from its last call
Authorized(c) == Done(c, "getAuthorizationURL") /\ calls[c].result.state = "resolved"

\* the caller of slot c starts the i-th call of its sign-in; a requestAccessToken
\* answers the redirect of the URL the caller's getAuthorizationURL returned,
\* which the call record keeps
ConcCall(c, i) ==
    /\ IF i = 1 THEN calls[c].pc = "idle" ELSE Done(c, SignIn[i - 1])
    /\ \E arg \in ConcArgs(SignIn[i]) :
         Put(c, [Idle EXCEPT !.op = SignIn[i], !.pc = "start", !.arg = arg,
                             !.url = IF Authorized(c) THEN calls[c].url ELSE Idle.url])
    /\ UNCHANGED <<browser, stores, httpsClient, pendingClear, lastSent, discoveryDone>>

ConcInit ==
    /\ config \in ConcConfigs
    /\ storeByReference = FALSE
    /\ metadata = NoMetadata
    /\ session = NoSession
    /\ temporary = NoTemporaryData
    /\ httpsClient = NoClient
    /\ calls = [c \in Slots |-> Idle]
    /\ pendingClear = 0
    /\ lastSent = NothingSent
    /\ discoveryDone = FALSE
    /\ sessionStorage = NoStorage
    /\ location = AppPage

ConcNext ==
    \/ \E c \in Slots, i \in DOMAIN SignIn : ConcCall(c, i)
    \/ \E c \in Slots : getAuthorizationURL_start(c)
    \/ \E c \in Slots : getAuthorizationURL_pkce(c)
    \/ \E c \in Slots : getInstance(c)
    \/ \E c \in Slots : getInstance_create(c)
    \/ \E c \in Slots : Transport(c)
    \/ \E c \in Slots : requestAccessToken_start(c)
    \/ \E c \in Slots : requestAccessToken_getVerifier(c)
    \/ \E c \in Slots : requestAccessToken_removeVerifier(c)
    \/ \E c \in Slots : requestAccessToken_post(c)
    \/ \E c \in Slots : requestAccessToken_then(c)
    \/ \E c \in Slots : requestAccessToken_catch(c)
    \/ \E c \in Slots : refreshAccessToken_start(c)
    \/ \E c \in Slots : refreshAccessToken_post(c)
    \/ \E c \in Slots : refreshAccessToken_then(c)
    \/ \E c \in Slots : refreshAccessToken_catch(c)
    \/ \E c \in Slots : getOIDCProviderMetaData_start(c)
    \/ \E c \in Slots : getOIDCProviderMetaData_get(c)
    \/ \E c \in Slots : getOIDCProviderMetaData_then(c)
    \/ \E c \in Slots : getOIDCProviderMetaData_catch(c)

ConcSpec == ConcInit /\ [][ConcNext]_vars

-----------------------------------------------------------------------------
(* The sign-out of the browser API: sendSignOutRequest and handleSignOut, over *)
(* the session and the OP configuration kept in sessionStorage.               *)

ID_TOKEN == "id_token"

\* new Error(message)
Error(message) ==
    [type |-> "Error", code |-> "", errorCode |-> "", status |-> 0, error |-> NoError,
     message |-> message]

\* how a function that is not async ends: it returns a value, or it throws
Returned(value) == [state |-> "returned", value |-> value, error |-> NoError]
Thrown(error) == [state |-> "thrown", value |-> Undefined, error |-> error]

\* `${value}` in a template literal
TemplateString(value) == IF value = Undefined THEN "undefined" ELSE value

\* sessionStorage.length
length(storage) == Cardinality({ key \in DOMAIN storage : storage[key] # Undefined })

\* op-config and session: both keep their entries in sessionStorage
getEndSessionEndpoint == sessionStorage.end_session_endpoint
getSessionParameter(key) == sessionStorage[key]
endAuthenticatedSession == [sessionStorage EXCEPT !.id_token = Undefined]
resetOPConfiguration == [sessionStorage EXCEPT !.end_session_endpoint = Undefined]

\* what sessionStorage can hold when a sign-out is asked for
Storages ==
    [id_token : {Undefined, " ", "ID"},
     end_session_endpoint : {Undefined, "", "https://op/logout"},
     other : {Undefined, "x"}]

\* requestParams, and whether a callback is passed
SignOutArgs == [callbackURL : {"https://app/cb", Undefined}, callback : BOOLEAN]

SignOutOps == {"sendSignOutRequest", "handleSignOut"}

\* the page calls a sign-out function; a page that has been redirected is gone
SignOutCall(c, op) ==
    /\ Sequenced(c, op)
    /\ location = AppPage
    /\ \E arg \in SignOutArgs :
         Put(c, [Idle EXCEPT !.op = op, !.pc = "start", !.arg = arg,
                             !.before = sessionStorage])
    /\ UNCHANGED <<browser, stores, httpsClient, pendingClear, lastSent, discoveryDone>>

\* the call runs sendSignOutRequest: called by the page, or by handleSignOut
\* (line 68)
Sending(c, pc) ==
    \/ At(c, "sendSignOutRequest", pc)
    \/ calls[c].op = "handleSignOut"
         /\ calls[c].pc = (IF pc = "start" THEN "sendSignOutRequest" ELSE pc)

\* lines 65-68
handleSignOut_start(c) ==
    /\ At(c, "handleSignOut", "start")
    /\ IF length(sessionStorage) = 0
       THEN Put(c, Settle(calls[c], Rejected(Error("No login sessions."))))
       ELSE Put(c, [calls[c] EXCEPT !.pc = "sendSignOutRequest"])
    /\ UNCHANGED <<browser, stores, httpsClient, pendingClear, lastSent, discoveryDone>>

\* lines 33-43, a mutant: the session is ended before the checks
sendSignOutRequest_start_EndFirst(c) ==
    /\ Sending(c, "start")
    /\ sessionStorage' = endAuthenticatedSession
    /\ LET logoutEndpoint == getEndSessionEndpoint
           idToken == getSessionParameter(ID_TOKEN)
       IN  IF IsBlank(logoutEndpoint)
           THEN Put(c, Settle(calls[c], Rejected(Error("Invalid logout endpoint found."))))
           ELSE IF IsBlank(idToken)
           THEN Put(c, Settle(calls[c], Rejected(Error("Invalid id_token found."))))
           ELSE Put(c, [calls[c] EXCEPT !.endpoint = logoutEndpoint,
                                        !.idToken = idToken,
                                        !.pc = "endAuthenticatedSession"])
    /\ UNCHANGED <<location, stores, httpsClient, pendingClear, lastSent, discoveryDone>>

\* lines 33-43: the two checks; a rejection passes through the catch of
\* handleSignOut (lines 69-72) as it is
sendSignOutRequest_start(c) ==
    /\ Sending(c, "start")
    /\ LET logoutEndpoint == getEndSessionEndpoint
           idToken == getSessionParameter(ID_TOKEN)
       IN  IF IsBlank(logoutEndpoint)
           THEN Put(c, Settle(calls[c], Rejected(Error("Invalid logout endpoint found."))))
           ELSE IF IsBlank(idToken)
           THEN Put(c, Settle(calls[c], Rejected(Error("Invalid id_token found."))))
           ELSE Put(c, [calls[c] EXCEPT !.endpoint = logoutEndpoint,
                                        !.idToken = idToken,
                                        !.pc = "endAuthenticatedSession"])
    /\ UNCHANGED <<browser, stores, httpsClient, pendingClear, lastSent, discoveryDone>>

\* line 45
sendSignOutRequest_endAuthenticatedSession(c) ==
    /\ Sending(c, "endAuthenticatedSession")
    /\ sessionStorage' = endAuthenticatedSession
    /\ Put(c, [calls[c] EXCEPT !.effects = Append(@, "endAuthenticatedSession"),
                               !.pc = "resetOPConfiguration"])
    /\ UNCHANGED <<location, stores, httpsClient, pendingClear, lastSent, discoveryDone>>

\* line 46
sendSignOutRequest_resetOPConfiguration(c) ==
    /\ Sending(c, "resetOPConfiguration")
    /\ sessionStorage' = resetOPConfiguration
    /\ Put(c, [calls[c] EXCEPT !.effects = Append(@, "resetOPConfiguration"),
                               !.pc = "callback"])
    /\ UNCHANGED <<location, stores, httpsClient, pendingClear, lastSent, discoveryDone>>

\* lines 48-50
sendSignOutRequest_callback(c) ==
    /\ Sending(c, "callback")
    /\ Put(c, [calls[c] EXCEPT
            !.effects = IF calls[c].arg.callback THEN Append(@, "callback") ELSE @,
            !.pc = "redirect"])
    /\ UNCHANGED <<browser, stores, httpsClient, pendingClear, lastSent, discoveryDone>>

\* lines 52-54: the redirect, after which the function ends without a return
\* statement: sendSignOutRequest returns undefined, and handleSignOut calls
\* .catch of that undefined (lines 68-69), which throws
sendSignOutRequest_redirect(c) ==
    /\ Sending(c, "redirect")
    /\ location' = calls[c].endpoint \o "?" \o "id_token_hint=" \o calls[c].idToken
                   \o "&post_logout_redirect_uri="
                   \o TemplateString(calls[c].arg.callbackURL)
    /\ Put(c, Settle([calls[c] EXCEPT !.effects = Append(@, "redirect")],
                     IF calls[c].op = "handleSignOut" THEN Thrown(TypeError)
                     ELSE Returned(Undefined)))
    /\ UNCHANGED <<sessionStorage, stores, httpsClient, pendingClear, lastSent,
                   discoveryDone>>

SignOutInit ==
    /\ config \in ConcConfigs
    /\ storeByReference = FALSE
    /\ metadata = NoMetadata
    /\ session = NoSession
    /\ temporary = NoTemporaryData
    /\ httpsClient = NoClient
    /\ calls = [c \in Slots |-> Idle]
    /\ pendingClear = 0
    /\ lastSent = NothingSent
    /\ discoveryDone = FALSE
    /\ sessionStorage \in Storages
    /\ location = AppPage

SignOutNext ==
    \/ \E c \in Slots, op \in SignOutOps : SignOutCall(c, op)
    \/ \E c \in Slots : Return(c)
    \/ \E c \in Slots : handleSignOut_start(c)
    \/ \E c \in Slots : sendSignOutRequest_start(c)
    \/ \E c \in Slots : sendSignOutRequest_endAuthenticatedSession(c)
    \/ \E c \in Slots : sendSignOutRequest_resetOPConfiguration(c)
    \/ \E c \in Slots : sendSignOutRequest_callback(c)
    \/ \E c \in Slots : sendSignOutRequest_redirect(c)

SignOutSpec == SignOutInit /\ [][SignOutNext]_vars

-----------------------------------------------------------------------------
(* C1 *)

\* C1: with enablePKCE set and a non-blank authorization endpoint, when
\* getAuthorizationURL returns, it has resolved, a verifier V is stored under
\* pkce_code_verifier, the URL's only code_challenge is getCodeChallenge(V) and
\* its only code_challenge_method is S256.
C1_StoredVerifierMatchesChallenge ==
    \A c \in Slots :
        ( /\ Done(c, "getAuthorizationURL")
          /\ config.enablePKCE
          /\ ~IsBlank(metadata.authorization_endpoint) )
        => /\ calls[c].result.state = "resolved"
           /\ temporary.pkce_code_verifier # Undefined
           /\ Values(calls[c].result.value, "code_challenge")
                = <<getCodeChallenge(temporary.pkce_code_verifier)>>
           /\ Values(calls[c].result.value, "code_challenge_method") = <<"S256">>

C1_Witness ==
    \E c \in Slots :
        /\ Done(c, "getAuthorizationURL")
        /\ config.enablePKCE
        /\ calls[c].result.state = "resolved"
        /\ temporary.pkce_code_verifier \in Verifiers

-----------------------------------------------------------------------------
(* C2 *)

\* C2: when requestAccessToken with PKCE enabled has resolved on a 200 response
\* whose body carries access_token A, the stored session has access_token A and
\* no pkce_code_verifier is stored.
C2_ExchangeStoresTokenAndDropsVerifier ==
    \A c \in Slots :
        ( /\ Done(c, "requestAccessToken")
          /\ config.enablePKCE
          /\ calls[c].response.status = 200
          /\ calls[c].result.state = "resolved" )
        => /\ session.access_token = calls[c].response.data.access_token
           /\ temporary.pkce_code_verifier = Undefined

C2_Witness ==
    \E c \in Slots :
        /\ Done(c, "requestAccessToken")
        /\ config.enablePKCE
        /\ calls[c].response.status = 200
        /\ calls[c].result.state = "resolved"
        /\ calls[c].sent \in Verifiers
        /\ session.access_token = "A"

-----------------------------------------------------------------------------
(* C3 *)

\* once the POST of a requestAccessToken with PKCE is out, and until the call
\* returns, no verifier is stored
C3_RemovedBeforePost ==
    \A c \in Slots :
        (calls[c].op = "requestAccessToken" /\ calls[c].pkce /\ Posted(c))
        => temporary.pkce_code_verifier = Undefined

\* the step that issues the POST of requestAccessToken with a stored verifier
C3_Sends(c) ==
    /\ At(c, "requestAccessToken", "request")
    /\ calls'[c].pc = "awaitResponse"
    /\ calls[c].pkce
    /\ calls[c].codeVerifier # Undefined

\* C3 as claimed: the verifier is removed before the POST and absent after it,
\* and no exchange sends the verifier an earlier exchange sent unless a
\* getAuthorizationURL came in between.
C3_Original ==
    /\ []C3_RemovedBeforePost
    /\ [][\A c \in Slots :
            C3_Sends(c) => calls[c].codeVerifier # lastSent.sinceAuthorize]_vars

\* C3 amended: the verifier is removed before the POST and absent after it, and
\* no exchange sends the verifier an earlier exchange sent unless a
\* getAuthorizationURL or a setPKCECode wrote the verifier in between.
C3_SentOncePerWrite ==
    /\ []C3_RemovedBeforePost
    /\ [][\A c \in Slots :
            C3_Sends(c) => calls[c].codeVerifier # lastSent.sinceWrite]_vars

\* a second exchange after one that sent a verifier, with nothing written in
\* between: it sends no verifier
C3_Witness ==
    \E c \in Slots :
        /\ calls[c].op = "requestAccessToken" /\ calls[c].pkce /\ Posted(c)
        /\ calls[c].sent = Undefined
        /\ lastSent.sinceWrite \in Verifiers

-----------------------------------------------------------------------------
(* C4 *)

\* C4: a refreshAccessToken called while the session holds no refresh_token ends
\* at once rejected with AUTH_CORE-RAT2-NF01 and issues no request, whatever the
\* metadata holds.
C4_NoRefreshTokenNoRequest ==
    \A c \in Slots :
        ( /\ calls[c].op = "refreshAccessToken"
          /\ calls[c].pc # "start"
          /\ calls[c].before.refresh_token = Undefined )
        => /\ calls[c].pc = "done"
           /\ calls[c].result
                = Rejected(AsgardeoAuthException("AUTH_CORE-RAT2-NF01", NoError))
           /\ calls[c].requests = 0

C4_Witness ==
    \E c \in Slots :
        /\ Done(c, "refreshAccessToken")
        /\ calls[c].before.refresh_token = Undefined
        /\ IsBlank(metadata.token_endpoint)

-----------------------------------------------------------------------------
(* C5 *)

\* C5: no call issues more than one request, and a getOIDCProviderMetaData(false)
\* started after an earlier getOIDCProviderMetaData has completed issues none and
\* resolves true.
C5_SecondDiscoveryFromCache ==
    \A c \in Slots :
        /\ calls[c].requests <= 1
        /\ ( /\ calls[c].op = "getOIDCProviderMetaData"
             /\ calls[c].pc # "start"
             /\ calls[c].afterDiscovery
             /\ calls[c].arg = FALSE )
           => /\ calls[c].requests = 0
              /\ calls[c].pc = "done"
              /\ calls[c].result = Resolved(TRUE)

\* the second call has returned, the first having ended on the fallback path
C5_Witness ==
    \E c \in Slots :
        /\ Done(c, "getOIDCProviderMetaData")
        /\ calls[c].afterDiscovery
        /\ calls[c].arg = FALSE
        /\ metadata = resolveFallbackEndpoints(config)

-----------------------------------------------------------------------------
(* C6 *)

\* C6: when the discovery GET of getOIDCProviderMetaData failed, by a thrown
\* error or by another status than 200, the call has resolved true, the stored
\* metadata is the fallback set of the configured base URL and
\* op_config_initiated is set.
C6_DiscoveryFailureFallsBack ==
    \A c \in Slots :
        ( /\ Done(c, "getOIDCProviderMetaData")
          /\ \/ calls[c].caught.type # "none"
             \/ calls[c].response.status \notin {0, 200} )
        => /\ calls[c].result.state = "resolved"
           /\ calls[c].result.value = TRUE
           /\ metadata = resolveFallbackEndpoints(config)
           /\ temporary.op_config_initiated = TRUE

\* the discovery endpoint answered with another status than 200
C6_Witness ==
    \E c \in Slots :
        /\ Done(c, "getOIDCProviderMetaData")
        /\ calls[c].response.status = 204
        /\ metadata.token_endpoint = "https://op/oauth2/token"

-----------------------------------------------------------------------------
(* C7 *)

\* C7 as claimed: when the revocation endpoint answered with another status than
\* 200, revokeAccessToken has failed with the AsgardeoAuthException
\* AUTH_CORE-RAT3-NR02 and the session is what it was before the call.
C7_Original ==
    \A c \in Slots :
        ( /\ Done(c, "revokeAccessToken")
          /\ calls[c].response.status \notin {0, 200} )
        => /\ calls[c].result
                = Rejected(AsgardeoAuthException("AUTH_CORE-RAT3-NR02", NoError))
           /\ session = calls[c].before

-----------------------------------------------------------------------------
(* C8 *)

\* C8 as claimed: when revokeAccessToken has resolved, the session holds no
\* access_token.
C8_Original ==
    \A c \in Slots :
        (Done(c, "revokeAccessToken") /\ calls[c].result.state = "resolved")
        => session.access_token = Undefined

-----------------------------------------------------------------------------
(* C9 *)

\* C9 as claimed: a requestAccessToken or refreshAccessToken whose POST failed
\* in the transport has failed with the network exception, and one whose
\* handleTokenResponse failed has failed with the AsgardeoAuthException
\* AUTH_CORE-RAT1-ES02 / AUTH_CORE-RAT2-ES03 that holds the cause.
C9_Original ==
    \A c \in Slots :
        ( /\ calls[c].op \in {"requestAccessToken", "refreshAccessToken"}
          /\ calls[c].pc = "done" )
        => /\ calls[c].caught.type = "AxiosError"
                => calls[c].result.error.type = "AsgardeoAuthNetworkException"
           /\ calls[c].caught.type = "AsgardeoAuthException"
                => calls[c].result = Rejected(AsgardeoAuthException(
                        IF calls[c].op = "requestAccessToken"
                        THEN "AUTH_CORE-RAT1-ES02" ELSE "AUTH_CORE-RAT2-ES03",
                        handleTokenResponse_error))

-----------------------------------------------------------------------------
(* C10 *)

\* C10: the scope parameter of every URL getAuthorizationURL returns holds
\* "openid" once, every configured scope once and nothing else, and is exactly
\* "openid" when the scope list is empty or absent; the stored scope list never
\* holds "openid" twice.
C10_ScopeHoldsOpenidOnce ==
    /\ config.scope # UndefinedArray => Count(config.scope, OIDC_SCOPE) <= 1
    /\ \A c \in Slots :
        (Done(c, "getAuthorizationURL") /\ calls[c].result.state = "resolved")
        => LET params == Values(calls[c].result.value, "scope")
               configured == IF config.scope = UndefinedArray THEN {}
                             ELSE Elements(config.scope)
           IN  /\ Len(params) = 1
               /\ LET scopes == Split(params[1], " ")
                  IN  /\ Elements(scopes) = configured \cup {OIDC_SCOPE}
                      /\ \A x \in Elements(scopes) : Count(scopes, x) = 1
               /\ configured = {} => params[1] = "openid"

\* a URL built from a scope list that the SDK itself had extended before
C10_Witness ==
    \E c \in Slots :
        /\ Done(c, "getAuthorizationURL")
        /\ calls[c].result.state = "resolved"
        /\ config.scope = <<"profile", "email", "openid">>
        /\ Values(calls[c].result.value, "scope") = <<"profile email openid">>

-----------------------------------------------------------------------------
(* C11 *)

\* C11: a requestAccessToken called with a non-empty sessionState that has passed
\* the token-endpoint check has stored it as session_state: it is stored in every
\* state from before the POST until the call resolves, so a read made while the
\* request is out sees it, and it stays stored when the exchange fails.
C11_SessionStateStoredBeforePost ==
    \A c \in Slots :
        ( /\ calls[c].op = "requestAccessToken"
          /\ calls[c].arg.sessionState # ""
          /\ calls[c].pc # "start"
          /\ calls[c].endpoint # Undefined
          /\ calls[c].result.state # "resolved" )
        => session.session_state = calls[c].arg.sessionState

\* the exchange has failed in the transport, and the session state is stored
C11_Witness ==
    \E c \in Slots :
        /\ Done(c, "requestAccessToken")
        /\ calls[c].arg.sessionState = "ss"
        /\ calls[c].requests = 1
        /\ calls[c].caught.type = "AxiosError"
        /\ calls[c].result.state = "rejected"
        /\ session.session_state = "ss"

-----------------------------------------------------------------------------
(* C12 *)

\* the stored metadata is a discovery document merged with the configured endpoints
C12_Discovered == \E d \in DiscoveryDocuments : metadata = resolveEndpoints(d, config)

\* the stored metadata is the fallback set of the base URL
C12_Fallback == metadata = resolveFallbackEndpoints(config)

\* the stored metadata is the configured endpoints alone
C12_Overridden == metadata = resolveEndpoints(NoMetadata, config)

\* a getOIDCProviderMetaData whose GET was answered with 200 has stored the
\* response merged with the configured endpoints, not the fallback set, has set
\* op_config_initiated and has resolved true
C12_SuccessStoresMerged ==
    \A c \in Slots :
        ( /\ Done(c, "getOIDCProviderMetaData")
          /\ calls[c].response.status = 200 )
        => /\ calls[c].result.state = "resolved"
           /\ calls[c].result.value = TRUE
           /\ metadata = resolveEndpoints(calls[c].response.data, config)
           /\ ~C12_Fallback
           /\ temporary.op_config_initiated = TRUE

\* C12 as claimed: the success path stores the merged metadata, and after any
\* completed getOIDCProviderMetaData the metadata is exactly one of discovered
\* and fallback, and op_config_initiated is set.
C12_Original ==
    /\ C12_SuccessStoresMerged
    /\ \A c \in Slots :
        Done(c, "getOIDCProviderMetaData")
        => /\ C12_Discovered # C12_Fallback
           /\ temporary.op_config_initiated = TRUE

\* C12 amended: the success path stores the merged metadata, and after any
\* completed getOIDCProviderMetaData op_config_initiated is set and the metadata
\* is exactly one of discovered, fallback and the configured endpoints alone,
\* the last only when the call was answered from the flag.
C12_DiscoveredFallbackOrOverridden ==
    /\ C12_SuccessStoresMerged
    /\ \A c \in Slots :
        Done(c, "getOIDCProviderMetaData")
        => /\ temporary.op_config_initiated = TRUE
           /\ Cardinality({ i \in 1..3 :
                  <<C12_Discovered, C12_Fallback, C12_Overridden>>[i] }) = 1
           /\ C12_Overridden => calls[c].requests = 0

\* a discovery answered with 200 while endpoints are configured
C12_Witness ==
    \E c \in Slots :
        /\ Done(c, "getOIDCProviderMetaData")
        /\ calls[c].response.status = 200
        /\ config.endpoints = Overrides
        /\ metadata.token_endpoint = "https://my/token"
        /\ metadata.revocation_endpoint = "https://op/revoke"

-----------------------------------------------------------------------------
(* C13 *)

\* a signOut that has resolved has returned the URL getSignOutURL yields for the
\* state before the call
C13_SameURL ==
    \A c \in Slots :
        (Done(c, "signOut") /\ calls[c].result.state = "resolved")
        => calls[c].result
             = getSignOutURL_value(metadata, config, calls[c].before)

\* C13 as claimed: when signOut has resolved, it has returned the URL of
\* getSignOutURL for the state before the call, and the session holds no
\* access_token and no id_token.
C13_Original ==
    /\ C13_SameURL
    /\ \A c \in Slots :
        (Done(c, "signOut") /\ calls[c].result.state = "resolved")
        => /\ session.access_token = Undefined
           /\ session.id_token = Undefined

-----------------------------------------------------------------------------
(* C14 *)

\* the exception getSignOutURL has failed with, "" when it has not
C14_Code(c) ==
    IF calls[c].result.state = "rejected" THEN calls[c].result.error.code ELSE ""

\* C14 as claimed: getSignOutURL fails with NF01 for a blank end_session_endpoint,
\* else with NF02 for a blank id_token, else with NF03 exactly when neither
\* signOutRedirectURL nor signInRedirectURL holds a non-blank value; else its URL
\* carries signOutRedirectURL when one is configured and signInRedirectURL
\* otherwise.
C14_Original ==
    \A c \in Slots :
        Done(c, "getSignOutURL")
        => LET noEndpoint == IsBlank(metadata.end_session_endpoint)
               noToken == IsBlank(session.id_token)
               noCallback == /\ IsBlank(config.signOutRedirectURL)
                             /\ IsBlank(config.signInRedirectURL)
           IN  /\ C14_Code(c) = "AUTH_CORE-GSOU-NF01" <=> noEndpoint
               /\ C14_Code(c) = "AUTH_CORE-GSOU-NF02" <=> ~noEndpoint /\ noToken
               /\ C14_Code(c) = "AUTH_CORE-GSOU-NF03"
                    <=> ~noEndpoint /\ ~noToken /\ noCallback
               /\ C14_Code(c) = ""
                    => calls[c].result.value
                         = metadata.end_session_endpoint \o "?id_token_hint="
                           \o session.id_token \o "&post_logout_redirect_uri="
                           \o (IF config.signOutRedirectURL # Undefined
                               THEN config.signOutRedirectURL
                               ELSE config.signInRedirectURL)
                           \o "&state=sign_out_success"

\* the order of the three checks alone, and the callback of a URL returned
C14_OrderOfChecks ==
    \A c \in Slots :
        Done(c, "getSignOutURL")
        => LET noEndpoint == IsBlank(metadata.end_session_endpoint)
               noToken == IsBlank(session.id_token)
           IN  /\ C14_Code(c) = "AUTH_CORE-GSOU-NF01" <=> noEndpoint
               /\ C14_Code(c) = "AUTH_CORE-GSOU-NF02" <=> ~noEndpoint /\ noToken

-----------------------------------------------------------------------------
(* C15 *)

\* the updateConfig of call c, past its first step
C15_Updating(c) == calls[c].op = "updateConfig" /\ calls[c].pc # "start"

\* C15: an updateConfig has persisted the partial configuration from its first
\* step on.  One that sets the override flag and supplies endpoints issues no
\* request and ends with the supplied endpoints alone as the metadata; one that
\* supplies endpoints without the flag ends after exactly one discovery request,
\* with the metadata re-resolved; one that supplies no endpoints issues no request
\* and no step of it changes the metadata.
C15_UpdateConfigBranches ==
    /\ [](\A c \in Slots :
            C15_Updating(c)
            => LET partial == calls[c].arg
               IN  /\ \A key \in DOMAIN partial : config[key] = partial[key]
                   /\ (Overriding(partial) \/ ~Supplied(partial))
                        => calls[c].requests = 0
                   /\ (calls[c].pc = "done" /\ Overriding(partial) /\ Supplied(partial))
                        => metadata = partial.endpoints
                   /\ (calls[c].pc = "done" /\ ~Overriding(partial) /\ Supplied(partial))
                        => /\ calls[c].requests = 1
                           /\ calls[c].result.state = "resolved"
                           /\ C12_Discovered \/ C12_Fallback
                           /\ temporary.op_config_initiated = TRUE)
    /\ [][\A c \in Slots :
            (calls[c].op = "updateConfig" /\ ~Supplied(calls[c].arg))
            => metadata' = metadata]_vars

\* an overriding update after a discovery: the discovered metadata is replaced
C15_Witness ==
    \E c \in Slots :
        /\ Done(c, "updateConfig")
        /\ Overriding(calls[c].arg) /\ Supplied(calls[c].arg)
        /\ temporary.op_config_initiated = TRUE
        /\ metadata = Overrides

-----------------------------------------------------------------------------
(* C16 *)

\* C16 as claimed: a requestCustomGrant answered with another status than 200
\* has failed with the AsgardeoAuthException AUTH_CORE-RCG-NR02; one answered
\* with 200 and returnsSession false has resolved with the response itself and
\* left the session as it was; one answered with 200 and returnsSession true that
\* has resolved has stored the response as the session.
C16_Original ==
    \A c \in Slots :
        Done(c, "requestCustomGrant")
        => /\ calls[c].response.status \notin {0, 200}
                => /\ calls[c].result.state = "rejected"
                   /\ calls[c].result.error.type = "AsgardeoAuthException"
                   /\ calls[c].result.error.code = "AUTH_CORE-RCG-NR02"
           /\ (calls[c].response.status = 200 /\ ~calls[c].arg.returnsSession)
                => /\ calls[c].result.state = "resolved"
                   /\ calls[c].result.value = calls[c].response
                   /\ session = calls[c].before
           /\ ( /\ calls[c].response.status = 200
                /\ calls[c].arg.returnsSession
                /\ calls[c].result.state = "resolved" )
                => session.access_token = calls[c].response.data.access_token

\* the two parts of C16 about a response of status 200
C16_SuccessPaths ==
    \A c \in Slots :
        (Done(c, "requestCustomGrant") /\ calls[c].response.status = 200)
        => /\ ~calls[c].arg.returnsSession
                => /\ calls[c].result.state = "resolved"
                   /\ calls[c].result.value = calls[c].response
                   /\ session = calls[c].before
           /\ (calls[c].arg.returnsSession /\ calls[c].result.state = "resolved")
                => session.access_token = calls[c].response.data.access_token

-----------------------------------------------------------------------------
(* C17 *)

\* C17: whatever exchanges, refreshes, custom grants, revocations and sign-outs
\* came before, the step in which isAuthenticated reads the session resolves the
\* call with true if the session holds a non-empty access_token and with false
\* if it does not.
C17_AuthenticatedIffAccessToken ==
    [][\A c \in Slots :
         (At(c, "isAuthenticated", "start") /\ calls'[c].pc = "done")
         => /\ calls'[c].result.state = "resolved"
            /\ calls'[c].result.value
                 = (session.access_token # Undefined /\ Len(session.access_token) > 0)]_vars

\* isAuthenticated has returned false for a session that holds a refresh token
\* and an empty access_token
C17_Witness ==
    \E c \in Slots :
        /\ Done(c, "isAuthenticated")
        /\ calls[c].result.value = FALSE
        /\ session.access_token = ""
        /\ session.refresh_token = "R"

-----------------------------------------------------------------------------
(* C18 *)

\* C18: no call issues more than one request, whether the request succeeds or
\* fails, and a call whose promise has settled issues none.
C18_NoRetries ==
    /\ [](\A c \in Slots : calls[c].requests <= 1)
    /\ [][\A c \in Slots :
            calls[c].pc = "done" => calls'[c].requests \in {calls[c].requests, 0}]_vars

\* a refresh has issued its request, the request has failed and the call has
\* been rejected
C18_Witness ==
    \E c \in Slots :
        /\ Done(c, "refreshAccessToken")
        /\ calls[c].requests = 1
        /\ calls[c].caught.type = "AxiosError"
        /\ calls[c].result.state = "rejected"

-----------------------------------------------------------------------------
(* C19 *)

\* C19 as claimed: the client HttpsClient.getInstance(dataLayer) returns is the
\* one of that data layer, built from that data layer's configuration.
C19_Original ==
    \A c \in Slots :
        (Done(c, "getInstance") /\ calls[c].result.state = "resolved")
        => /\ calls[c].result.value.dataLayer = calls[c].arg
           /\ calls[c].result.value.withCredentials
                = ConfigOf(calls[c].arg).sendCookiesInRequests

\* whatever the data layer, getInstance returns the one client of the process
C19_OneClient ==
    \A c \in Slots :
        (Done(c, "getInstance") /\ calls[c].result.state = "resolved")
        => calls[c].result.value = httpsClient

-----------------------------------------------------------------------------
(* C20 *)

\* C20: decodeIDToken returns the parsed payload of the second segment of a
\* well-formed token, and fails with the AsgardeoAuthException
\* CRYPTO_UTIL-DIT-IV01 that holds the error caught for every other token: one
\* whose second segment is no JSON, is empty or is missing, and no token at all.
C20_DecodeOrTokenDecodingError ==
    \A c \in Slots :
        Done(c, "decodeIDToken")
        => LET idToken == calls[c].arg
               result == calls[c].result
           IN  IF idToken \in {"A.ACDCEFB.A", "A.AB.A"}
               THEN /\ result.state = "resolved"
                    /\ result.value = IF idToken = "A.AB.A" THEN <<>>
                                      ELSE << <<"a", 1>> >>
               ELSE /\ result.state = "rejected"
                    /\ result.error.type = "AsgardeoAuthException"
                    /\ result.error.code = "CRYPTO_UTIL-DIT-IV01"
                    /\ result.error.fifth.type
                         = IF idToken \in {"A", Undefined} THEN "TypeError"
                           ELSE "SyntaxError"

\* a token whose second segment decodes to text that is no JSON
C20_Witness ==
    \E c \in Slots :
        /\ Done(c, "decodeIDToken")
        /\ calls[c].arg = "A.G.A"
        /\ base64url_decode(Split(calls[c].arg, ".")[2]) = "x"
        /\ calls[c].result.state = "rejected"
        /\ calls[c].result.error.code = "CRYPTO_UTIL-DIT-IV01"

-----------------------------------------------------------------------------
(* C21 *)

\* C21: requestAccessToken started while the token endpoint is absent or blank
\* settles at once, rejected with AUTH_CORE-RAT1-NF01, and that step changes
\* no store (session_state is not written, the PKCE verifier is neither read
\* nor removed) and sends no request; getAuthorizationURL started while the
\* authorization endpoint is absent or blank settles rejected with
\* AUTH_CORE-GAU-NF01 and stores no PKCE verifier.
C21_MissingEndpointNoEffect ==
    [][\A c \in Slots :
         /\ ( /\ At(c, "requestAccessToken", "start")
              /\ IsBlank(metadata.token_endpoint)
              /\ calls'[c] # calls[c] )
            => /\ calls'[c].pc = "done"
               /\ calls'[c].result.state = "rejected"
               /\ calls'[c].result.error.code = "AUTH_CORE-RAT1-NF01"
               /\ calls'[c].requests = 0
               /\ calls'[c].codeVerifier = Undefined
               /\ UNCHANGED <<stores, httpsClient, lastSent>>
         /\ ( /\ At(c, "getAuthorizationURL", "start")
              /\ IsBlank(metadata.authorization_endpoint)
              /\ calls'[c] # calls[c] )
            => /\ calls'[c].pc = "done"
               /\ calls'[c].result.state = "rejected"
               /\ calls'[c].result.error.code = "AUTH_CORE-GAU-NF01"
               /\ UNCHANGED <<stores, httpsClient, lastSent>>
    ]_vars

\* a token exchange carrying a session_state was refused for the missing
\* endpoint while a PKCE verifier was stored
C21_Witness ==
    \E c \in Slots :
        /\ Done(c, "requestAccessToken")
        /\ calls[c].result.state = "rejected"
        /\ calls[c].result.error.code = "AUTH_CORE-RAT1-NF01"
        /\ calls[c].arg.sessionState = "ss"
        /\ temporary.pkce_code_verifier \in Verifiers
        /\ session.session_state = Undefined

-----------------------------------------------------------------------------
(* C22 *)

\* the parameters the configuration gives the URL of call c, in the claimed order
C22_Configured(c) ==
    <<  <<"response_type", "code">>, <<"client_id", config.clientID>>,
        <<"scope", getAuthorizationURL_scope(config).scope>>,
        <<"redirect_uri", config.signInRedirectURL>> >>
    \o (IF Boolean(config.responseMode)
        THEN << <<"response_mode", config.responseMode>> >> ELSE <<>>)
    \o (IF config.enablePKCE
        THEN << <<"code_challenge_method", "S256">>,
                <<"code_challenge", calls[c].codeChallenge>> >>
        ELSE <<>>)
    \o (IF Boolean(config.prompt) THEN << <<"prompt", config.prompt>> >> ELSE <<>>)

\* the caller's entries that pass the test, each with its value as a string
C22_Kept(customParams, Skipped(_, _)) ==
    LET kept == SelectSeq(customParams, LAMBDA e : ~Skipped(e[1], e[2]))
    IN  [i \in 1..Len(kept) |-> <<kept[i][1], toString(kept[i][2])>>]

\* C22: the URL getAuthorizationURL returns carries response_type=code,
\* client_id, scope, redirect_uri, then response_mode if configured, then
\* code_challenge_method and code_challenge if PKCE is enabled, then prompt if
\* configured, then the caller's extra parameters in their order, skipping
\* exactly the entries whose key or value is the empty string and appending
\* every other entry with its value as a string.
C22_Original ==
    \A c \in Slots :
        (Done(c, "getAuthorizationURL") /\ calls[c].result.state = "resolved")
        => calls[c].result.value.searchParams
             = C22_Configured(c)
               \o C22_Kept(calls[c].arg,
                           LAMBDA key, value : key = "" \/ value = JSString(""))

\* what holds instead: the order is the claimed one, and an entry is skipped
\* when its key is empty or its value compares equal to "" with ==, which the
\* empty string and the boolean false both do
C22_OrderWithLooseTest ==
    \A c \in Slots :
        (Done(c, "getAuthorizationURL") /\ calls[c].result.state = "resolved")
        => calls[c].result.value.searchParams
             = C22_Configured(c)
               \o C22_Kept(calls[c].arg,
                           LAMBDA key, value : key = "" \/ LooseEqualsEmpty(value))

\* a URL with every optional parameter was returned for a caller who passed
\* the boolean false
C22_FalseDropped ==
    \E c \in Slots :
        /\ Done(c, "getAuthorizationURL")
        /\ calls[c].result.state = "resolved"
        /\ config.enablePKCE /\ config.prompt = "login"
        /\ config.responseMode = "form_post"
        /\ Includes(calls[c].arg, <<"f", JSBoolean(FALSE)>>)
        /\ Values(calls[c].result.value, "f") = <<>>
        /\ Values(calls[c].result.value, "t") = <<"true">>

-----------------------------------------------------------------------------
(* C26 *)

\* the token POST of call c was refused by the transport
C26_TransportFailed(c) ==
    /\ calls[c].op \in {"requestAccessToken", "refreshAccessToken"}
    /\ calls[c].pc \in {"catch", "done"}
    /\ calls[c].caught.type = "AxiosError"

\* C26: when the token POST of requestAccessToken or refreshAccessToken fails
\* in the transport, the stored access_token, refresh_token and id_token are
\* those of before the call, session_state is the one of before the call or
\* the one the exchange was called with, and isAuthenticated answers as it did
\* before the call.
C26_FailedRequestKeepsTokens ==
    \A c \in Slots :
        C26_TransportFailed(c)
        => /\ session.access_token = calls[c].before.access_token
           /\ session.refresh_token = calls[c].before.refresh_token
           /\ session.id_token = calls[c].before.id_token
           /\ \/ session.session_state = calls[c].before.session_state
              \/ /\ calls[c].op = "requestAccessToken"
                 /\ session.session_state = calls[c].arg.sessionState
           /\ Boolean(session.access_token) = Boolean(calls[c].before.access_token)

\* an exchange on an authenticated context failed in the transport after it
\* had written its session_state
C26_Witness ==
    \E c \in Slots :
        /\ Done(c, "requestAccessToken")
        /\ C26_TransportFailed(c)
        /\ calls[c].result.state = "rejected"
        /\ calls[c].before.access_token = "A"
        /\ calls[c].before.session_state = Undefined
        /\ session.session_state = "ss"

-----------------------------------------------------------------------------
(* C27 *)

\* C27: a signOut that is rejected is rejected with the exception getSignOutURL
\* throws on the same stores (AUTH_CORE-GSOU-NF01, -NF02 or -NF03), no session
\* clear has been started, and SessionData is what it was before the call.
C27_FailedSignOutKeepsSession ==
    \A c \in Slots :
        (Done(c, "signOut") /\ calls[c].result.state = "rejected")
        => /\ calls[c].result
                = getSignOutURL_value(getOIDCProviderMetaData_stored,
                                      getConfigData, getSessionData)
           /\ calls[c].result.error.code
                \in {"AUTH_CORE-GSOU-NF01", "AUTH_CORE-GSOU-NF02",
                     "AUTH_CORE-GSOU-NF03"}
           /\ pendingClear = 0
           /\ session = calls[c].before

\* signOut was rejected for the missing callback URL on a context that holds
\* tokens
C27_Witness ==
    \E c \in Slots :
        /\ Done(c, "signOut")
        /\ calls[c].result.state = "rejected"
        /\ calls[c].result.error.code = "AUTH_CORE-GSOU-NF03"
        /\ session.access_token = "A"
        /\ session.id_token = "ID"

-----------------------------------------------------------------------------
(* C28 *)

\* C28: no step of an updateConfig called with the override flag set changes
\* op_config_initiated, and such a call has issued no request; so a
\* getOIDCProviderMetaData(false) that started before any metadata resolution
\* had completed on the context, overriding updates or not, has issued one
\* discovery request and has stored the discovered or the fallback metadata.
C28_OverrideLeavesFlag ==
    /\ [][\A c \in Slots :
            (calls[c].op = "updateConfig" /\ Overriding(calls[c].arg))
            => /\ temporary'.op_config_initiated = temporary.op_config_initiated
               /\ calls[c].requests = 0
               /\ calls'[c].requests = 0]_vars
    /\ [](\A c \in Slots :
            ( /\ Done(c, "getOIDCProviderMetaData")
              /\ calls[c].arg = FALSE
              /\ ~calls[c].afterDiscovery )
            => /\ calls[c].requests = 1
               /\ temporary.op_config_initiated = TRUE
               /\ C12_Discovered \/ C12_Fallback)

\* after an overriding update with endpoints, a first getOIDCProviderMetaData(false)
\* has fetched the discovery document and replaced the overrides by the merge
C28_Witness ==
    \E c \in Slots :
        /\ Done(c, "getOIDCProviderMetaData")
        /\ calls[c].arg = FALSE
        /\ ~calls[c].afterDiscovery
        /\ config.overrideWellEndpointConfig = TRUE
        /\ config.endpoints = Overrides
        /\ calls[c].requests = 1
        /\ metadata.authorization_endpoint = "https://op/authorize"
        /\ metadata.token_endpoint = "https://my/token"

-----------------------------------------------------------------------------
(* C23 *)

\* the code_challenge of the authorization URL the exchange of slot c answers
C23_Challenge(c) == Values(calls[c].url, "code_challenge")

\* slot c runs the exchange of an authorization URL issued with PKCE
C23_Answers(c) == calls[c].op = "requestAccessToken" /\ Len(C23_Challenge(c)) = 1

\* C23: the verifier is a single slot.  An exchange reads whatever the slot holds
\* and sends it: nothing when the slot was emptied by another exchange, the
\* verifier of its own URL when its own getAuthorizationURL was the last to
\* write the slot, and the verifier of the other caller's URL when that caller
\* wrote last.  So an exchange sends a verifier that matches the challenge of its
\* own URL only when no other authorization or exchange came between its
\* getAuthorizationURL and its read (or the other caller drew the same
\* verifier).
C23_OneVerifierSlot ==
    /\ [][\A c \in Slots :
            ( /\ At(c, "requestAccessToken", "getVerifier")
              /\ calls'[c].pc = "removeVerifier" )
            => LET read == calls'[c].codeVerifier
                   writer == lastSent.writer
               IN  /\ read = temporary.pkce_code_verifier
                   /\ (writer = 0) = (read = Undefined)
                   /\ (C23_Answers(c) /\ writer = c)
                        => <<getCodeChallenge(read)>> = C23_Challenge(c)
                   /\ (writer \notin {0, c} /\ Len(C23_Challenge(writer)) = 1)
                        => <<getCodeChallenge(read)>> = C23_Challenge(writer)
                   /\ ( /\ C23_Answers(c) /\ read # Undefined
                        /\ <<getCodeChallenge(read)>> = C23_Challenge(c) )
                        => \/ writer = c
                           \/ /\ writer \notin {0, c}
                              /\ Len(C23_Challenge(writer)) = 1
                                   => C23_Challenge(writer) = C23_Challenge(c)
         ]_vars
    /\ [](\A c \in Slots :
            (calls[c].op = "requestAccessToken" /\ Posted(c))
            => calls[c].sent = calls[c].codeVerifier)

\* both callers were given a URL before either exchanged its code: one exchange
\* has sent the verifier of the other caller's URL, the other has sent none
C23_Witness ==
    \E c, d \in Slots :
        /\ c # d
        /\ C23_Answers(c) /\ Posted(c)
        /\ calls[c].sent \in Verifiers
        /\ <<getCodeChallenge(calls[c].sent)>> # C23_Challenge(c)
        /\ C23_Answers(d) /\ Posted(d)
        /\ calls[d].sent = Undefined

-----------------------------------------------------------------------------
(* C24 *)

\* the token call of slot c stores its response in this step
C24_Stores(c) ==
    /\ calls[c].op \in {"requestAccessToken", "refreshAccessToken"}
    /\ calls[c].pc = "then"
    /\ calls'[c].pc = "done"

\* C24: requestAccessToken and refreshAccessToken are not serialized: the step
\* in which either stores its token response replaces the tokens of the session
\* by those of its own response, whatever the other call has stored or is about
\* to store, so the session is the one of the call that stored last.
C24_LastWriteWins ==
    [][\A c \in Slots :
         C24_Stores(c)
         => /\ session'.access_token = calls[c].response.data.access_token
            /\ session'.refresh_token = calls[c].response.data.refresh_token
            /\ session'.id_token = calls[c].response.data.id_token
            /\ calls'[c].result.state = "resolved"
      ]_vars

\* an exchange and a refresh hold different successful responses at the same
\* time, neither stored yet, over a session that a third response had filled
C24_Witness ==
    \E c, d \in Slots :
        /\ At(c, "requestAccessToken", "then")
        /\ At(d, "refreshAccessToken", "then")
        /\ calls[c].response.status = 200
        /\ calls[d].response.status = 200
        /\ calls[c].response.data.access_token = "A"
        /\ calls[d].response.data.access_token = "B"
        /\ session.access_token = ""

-----------------------------------------------------------------------------
(* C25 *)

\* C25 as claimed: whenever getInstance has returned the client to a call, the
\* client's axios instance is there.
C25_Original ==
    \A c \in Slots : calls[c].pc = "request" => getAxios # Undefined

\* what holds instead: a call holds a client without axios instance only while
\* the call that constructed the client is still waiting for the configuration
C25_InitialisedUnlessOverlap ==
    \A c \in Slots :
        (calls[c].pc = "request" /\ getAxios = Undefined)
        => \E d \in Slots \ {c} : calls[d].pc = "createAxios"

\* a call was given the client while it was being built, and failed on getAxios()
C25_TypeErrorReached ==
    \E c \in Slots :
        /\ calls[c].pc = "done"
        /\ calls[c].result.state = "rejected"
        /\ calls[c].result.error.type = "TypeError"

-----------------------------------------------------------------------------
(* C29 *)

\* what a sendSignOutRequest that passes its checks does, in order
C29_Effects(c) ==
    <<"endAuthenticatedSession", "resetOPConfiguration">>
    \o (IF calls[c].arg.callback THEN <<"callback">> ELSE <<>>)
    \o <<"redirect">>

\* the URL of the redirect, from the storage the call found
C29_URL(c) ==
    calls[c].before.end_session_endpoint \o "?id_token_hint="
    \o calls[c].before.id_token \o "&post_logout_redirect_uri="
    \o TemplateString(calls[c].arg.callbackURL)

\* C29: sendSignOutRequest with an absent or blank end-session endpoint, or else
\* with an absent or blank id_token, is rejected and has ended no session, reset
\* no OP configuration, invoked no callback and redirected nowhere.  Otherwise
\* what it has done at any moment is a beginning of: endAuthenticatedSession,
\* resetOPConfiguration, the callback if one was passed, the redirect; and when
\* it has ended the page is at the end-session endpoint with the id_token that
\* was stored when the call started.
C29_ChecksThenOrderedEffects ==
    \A c \in Slots :
        calls[c].op = "sendSignOutRequest"
        => /\ \E n \in 0..Len(C29_Effects(c)) :
                calls[c].effects = SubSeq(C29_Effects(c), 1, n)
           /\ (location # AppPage) = (calls[c].effects = C29_Effects(c))
           /\ calls[c].pc = "done"
                => IF IsBlank(calls[c].before.end_session_endpoint)
                      \/ IsBlank(calls[c].before.id_token)
                   THEN /\ calls[c].result.state = "rejected"
                        /\ calls[c].result.error.message
                             = IF IsBlank(calls[c].before.end_session_endpoint)
                               THEN "Invalid logout endpoint found."
                               ELSE "Invalid id_token found."
                        /\ calls[c].effects = <<>>
                        /\ sessionStorage = calls[c].before
                        /\ location = AppPage
                   ELSE /\ calls[c].result.state # "rejected"
                        /\ calls[c].effects = C29_Effects(c)
                        /\ sessionStorage.id_token = Undefined
                        /\ sessionStorage.end_session_endpoint = Undefined
                        /\ location = C29_URL(c)

\* a sendSignOutRequest with a callback has ended the session and redirected
C29_Witness ==
    \E c \in Slots :
        /\ Done(c, "sendSignOutRequest")
        /\ calls[c].effects
             = <<"endAuthenticatedSession", "resetOPConfiguration", "callback",
                 "redirect">>
        /\ location
             = "https://op/logout?id_token_hint=ID&post_logout_redirect_uri=https://app/cb"
        /\ sessionStorage.id_token = Undefined

-----------------------------------------------------------------------------
(* C30 *)

\* C30 as claimed: handleSignOut never throws; on an empty sessionStorage it is
\* rejected with "No login sessions." and has changed nothing; on a non-empty
\* one it ends as sendSignOutRequest does, rejected with its error or, when the
\* session was ended and the page redirected, completed normally.
C30_Original ==
    \A c \in Slots :
        Done(c, "handleSignOut")
        => /\ calls[c].result.state # "thrown"
           /\ length(calls[c].before) = 0
                => /\ calls[c].result.state = "rejected"
                   /\ calls[c].result.error.message = "No login sessions."
                   /\ calls[c].effects = <<>>
                   /\ sessionStorage = calls[c].before
                   /\ location = AppPage
           /\ (length(calls[c].before) # 0 /\ calls[c].result.state = "rejected")
                => /\ calls[c].result.error.message
                        \in {"Invalid logout endpoint found.", "Invalid id_token found."}
                   /\ calls[c].effects = <<>>

\* what holds instead: the rejections are as claimed, and a handleSignOut whose
\* sendSignOutRequest ends the session and redirects throws a TypeError after
\* the redirect
C30_ThrowsAfterRedirect ==
    \A c \in Slots :
        Done(c, "handleSignOut")
        => IF length(calls[c].before) = 0
           THEN /\ calls[c].result.state = "rejected"
                /\ calls[c].result.error.message = "No login sessions."
                /\ calls[c].effects = <<>>
                /\ sessionStorage = calls[c].before
                /\ location = AppPage
           ELSE IF IsBlank(calls[c].before.end_session_endpoint)
                   \/ IsBlank(calls[c].before.id_token)
           THEN /\ calls[c].result.state = "rejected"
                /\ calls[c].result.error.message
                     = IF IsBlank(calls[c].before.end_session_endpoint)
                       THEN "Invalid logout endpoint found."
                       ELSE "Invalid id_token found."
                /\ calls[c].effects = <<>>
                /\ sessionStorage = calls[c].before
           ELSE /\ calls[c].result.state = "thrown"
                /\ calls[c].result.error.type = "TypeError"
                /\ "redirect" \in Elements(calls[c].effects)
                /\ location # AppPage

\* handleSignOut has thrown after it signed the user out
C30_ThrownReached ==
    \E c \in Slots :
        /\ Done(c, "handleSignOut")
        /\ calls[c].result.state = "thrown"
        /\ sessionStorage.id_token = Undefined
        /\ location # AppPage

====
